---- MODULE Spec2Model ----
(***************************************************************************)
(* Video recording controller of tellodesk (src/video.go, the variant that  *)
(* pipes the raw stream into an ffmpeg converter process).                  *)
(*                                                                          *)
(* Threads of the program that appear here:                                 *)
(*   - the GTK main thread, which runs recordVideoCB and                    *)
(*     stopRecordingVideoCB to completion, one at a time (uiPc);            *)
(*   - the decoder goroutine, which calls customReader for every packet;    *)
(*   - one goroutine per recorded packet, started by customReader with      *)
(*     "go videoWriter.Write(pkt)" (pending);                               *)
(*   - the goroutine stopRecordingVideoCB starts to wait for the converter  *)
(*     (helperPc), which may outlive the stop request (orphan);             *)
(*   - the converter processes themselves (procSt).                *)
(*                                                                          *)
(* Two more parts of src/video.go have specifications of their own:         *)
(*   - SpecBuffered: the earlier variant of the recorder (first copy in the  *)
(*     file), in which customReader writes to a bufio.Writer itself;         *)
(*   - FeedSpec: the live feed, that is the videoListener goroutine with the *)
(*     frame cell wgt.feedImage / wgt.newFeedImage, and updateFeed, which    *)
(*     the 30 ms timeout runs on the main thread.                            *)
(* Each specification leaves the variables of the other parts as Init sets   *)
(* them.                                                                     *)
(***************************************************************************)
EXTENDS Integers, Sequences, FiniteSets, TLC

\* Number of exec.Command values a run may create.
MaxProcs == 2
\* Number of packets a run may deliver on videoChan.
MaxPkts == 2
\* Number of packets a run of the buffered variant may deliver on videoChan.
MaxBufPkts == 3

Procs == 1..MaxProcs
Pkts == 1..MaxPkts
\* The nil value of videoConverter / videoWriter / feedImage.
Nil == 0
\* blueSkyPixbuf, the placeholder wgt.image shows while there is no feed.
BlueSky == Nil

VARIABLES
    videoRecording,       \* var videoRecording bool
    videoConverter,       \* var videoConverter *exec.Cmd (Nil or a command)
    videoWriter,          \* var videoWriter io.WriteCloser (Nil or the stdin pipe of a command)
    recVidSensitive,      \* menuBar.recVidItem sensitivity
    stopRecVidSensitive,  \* menuBar.stopRecVidItem sensitivity
    uiPc,                 \* position of the GTK main thread
    nCmds,                \* number of exec.Command values created so far
    dialog,               \* messageDialog text the last request showed ("" if none)
    helperPc,             \* wait goroutine of the running stop request: "none", "wait", "err"
    timerFired,           \* the running stop request's time.After channel is ready
    stopLog,              \* calls made by the running (or last) stop request, in order
    idleStop,             \* the running (or last) stop request arrived with the flag false
    procSt,               \* per command: "none", "created", "failed", "running", "exited"
    pipeOpen,             \* per command: the write end of its stdin pipe is open
    interrupted,          \* per command: Process.Signal(os.Interrupt) was called
    killIssued,           \* per command: Process.Kill() was called
    waitCalled,           \* per command: Cmd.Wait() was called
    waitSeen,             \* per command: a stop request received its exit on videoConverterDone
    stopped,              \* per command: a stop request for it switched the menu back
    timedOut,             \* per command: the 15 s timer of its stop request fired
    exitKind,             \* per command: when it exited: "none", "early" (timer not fired), "late", "killed"
    orphan,               \* per command: a timed-out stop left its wait goroutine behind
    nPulled,              \* packets received from videoChan so far (packet k is the k-th)
    pulled,               \* per pulled packet: what customReader saw, [rec, w, afterFail]
    returned,             \* packets customReader returned to the decoding library, in order
    pending,              \* packets whose "go videoWriter.Write" goroutine has not finished
    input,                \* per command: packets written to its stdin, in write order
    lateWrite,            \* some Write met a closed pipe
    crashed,              \* the program panicked (nil dereference)
    readerPc,             \* buffered variant: the decoder task in customReader, "idle" or "write"
    wbuf,                 \* buffered variant: packets held in the bufio.Writer's buffer
    inPipe,               \* buffered variant, per command: packets in its stdin pipe, unread
    decPc,                \* position of the videoListener goroutine
    setupErr,             \* the setup step of videoListener that failed ("" if none)
    chanClosed,           \* videoChan has been closed
    unitSt,               \* per coded unit the decode loop has handled: "ok", "bad", "skip"
    feedMu,               \* wgt.newFeedImageMu: "free", "decoder", "ui"
    feedImage,            \* wgt.feedImage (Nil or a frame; frame k is decoded from unit k)
    newFeedImage,         \* wgt.newFeedImage
    published,            \* frames the decoder has stored in wgt.feedImage, in order
    tickPc,               \* position of updateFeed on the main thread
    timerOn,              \* the glib timeout that calls updateFeed is installed
    image,                \* what wgt.image shows (BlueSky or a frame)
    shown,                \* frames updateFeed has put on wgt.image, in order
    liveTrack,            \* var liveTrack *telloTrackT: positions and the six bounds
    trackMu,              \* liveTrack.trackMu: "free", "w" (Lock held), "r" (RLock held)
    called,               \* the last completed call on the track: [op, arg, pre]
    addPc,                \* the flight-data task inside addPositionIfChanged: [pc, newPos]
    trackPc,              \* the main thread inside simplify / exportTrackCB: [pc, lastPos, thisIx, minDist]
    jsState,              \* readJoystick: the joystick.State read in the last poll, [AxisData, Buttons]
    prevState,            \* readJoystick: prevState
    sm,                   \* readJoystick: the tello.StickMessage of the last poll
    pollLog               \* per poll so far: the buttons read and the actions triggered

uiVars == <<videoRecording, videoConverter, videoWriter, recVidSensitive,
            stopRecVidSensitive, uiPc, nCmds, dialog, helperPc, timerFired,
            stopLog, idleStop>>
procVars == <<procSt, pipeOpen, interrupted, killIssued, waitCalled,
              waitSeen, stopped, timedOut, exitKind, orphan>>
pktVars == <<nPulled, pulled, returned, pending, input, lateWrite>>
bufVars == <<readerPc, wbuf, inPipe>>
feedVars == <<decPc, setupErr, chanClosed, unitSt, feedMu, feedImage,
              newFeedImage, published, tickPc, timerOn, image, shown>>
trackVars == <<liveTrack, trackMu, called, addPc, trackPc>>
joyVars == <<jsState, prevState, sm, pollLog>>
vars == <<uiVars, procVars, pktVars, crashed, bufVars, feedVars, trackVars, joyVars>>

Range(s) == {s[i] : i \in 1..Len(s)}

StopPcs == {"stop_close", "stop_signal", "stop_wait", "stop_select", "stop_menu"}

\* State after the package-level declarations; the menu starts with the start
\* item enabled and the stop item disabled.
\* The zero value of telloPosT (timeStamp is never compared and is left out).
ZeroPos == [heightDm |-> 0, mvoX |-> 0, mvoY |-> 0, imuYaw |-> 0]

\* The four stick axes of jsConfig.Axes.
Axes == {"axLeftX", "axLeftY", "axRightX", "axRightY"}

\* The zero value of joystick.State.
ZeroState == [AxisData |-> [a \in Axes |-> 0], Buttons |-> {}]

\* newTrack(): an empty track with all six bounds zero.
newTrack ==
    [positions |-> <<>>, maxX |-> 0, maxY |-> 0, minX |-> 0, minY |-> 0,
     maxHeightDm |-> 0, minHeightDm |-> 0]

Init ==
    /\ videoRecording = FALSE
    /\ videoConverter = Nil
    /\ videoWriter = Nil
    /\ recVidSensitive = TRUE
    /\ stopRecVidSensitive = FALSE
    /\ uiPc = "idle"
    /\ nCmds = 0
    /\ dialog = ""
    /\ helperPc = "none"
    /\ timerFired = FALSE
    /\ stopLog = <<>>
    /\ idleStop = FALSE
    /\ procSt = [p \in Procs |-> "none"]
    /\ pipeOpen = [p \in Procs |-> FALSE]
    /\ interrupted = [p \in Procs |-> FALSE]
    /\ killIssued = [p \in Procs |-> FALSE]
    /\ waitCalled = [p \in Procs |-> FALSE]
    /\ waitSeen = [p \in Procs |-> FALSE]
    /\ stopped = [p \in Procs |-> FALSE]
    /\ timedOut = [p \in Procs |-> FALSE]
    /\ exitKind = [p \in Procs |-> "none"]
    /\ orphan = [p \in Procs |-> FALSE]
    /\ nPulled = 0
    /\ pulled = <<>>
    /\ returned = <<>>
    /\ pending = {}
    /\ input = [p \in Procs |-> <<>>]
    /\ lateWrite = FALSE
    /\ crashed = FALSE
    /\ readerPc = "idle"
    /\ wbuf = <<>>
    /\ inPipe = [p \in Procs |-> <<>>]
    /\ decPc = "off"
    /\ setupErr = ""
    /\ chanClosed = FALSE
    /\ unitSt = <<>>
    /\ feedMu = "free"
    /\ feedImage = Nil
    /\ newFeedImage = FALSE
    /\ published = <<>>
    /\ tickPc = "idle"
    /\ timerOn = FALSE
    /\ image = BlueSky
    /\ shown = <<>>
    /\ liveTrack = newTrack
    /\ trackMu = "free"
    /\ called = [op |-> "none", arg |-> 0, pre |-> newTrack]
    /\ addPc = [pc |-> "idle", newPos |-> ZeroPos]
    /\ trackPc = [pc |-> "idle", lastPos |-> ZeroPos, thisIx |-> 0, minDist |-> 0]
    /\ jsState = ZeroState
    /\ prevState = ZeroState
    /\ sm = [Rx |-> 0, Ry |-> 0, Lx |-> 0, Ly |-> 0]
    /\ pollLog = <<>>

(***************************************************************************)
(* recordVideoCB                                                            *)
(***************************************************************************)

\* Lines 449-471: build the command and ask for its stdin pipe; when that fails,
\* report it and return. The function has no guard of its own: it runs whenever
\* it is called.
RecordVideoCB ==
    /\ uiPc = "idle" /\ ~crashed
    /\ nCmds < MaxProcs
    /\ \E ok \in BOOLEAN :
        LET p == nCmds + 1 IN
        /\ nCmds' = p
        /\ videoConverter' = p
        /\ procSt' = [procSt EXCEPT ![p] = "created"]
        /\ IF ok
           THEN /\ videoWriter' = p
                /\ pipeOpen' = [pipeOpen EXCEPT ![p] = TRUE]
                /\ uiPc' = "rec_start"
                /\ dialog' = ""
           ELSE /\ videoWriter' = Nil
                /\ dialog' = "Could not prepare video converter."
                /\ UNCHANGED <<pipeOpen, uiPc>>
    /\ UNCHANGED <<videoRecording, recVidSensitive, stopRecVidSensitive,
                   helperPc, timerFired, stopLog, idleStop>>
    /\ UNCHANGED <<interrupted, killIssued, waitCalled, waitSeen,
                   stopped, timedOut, exitKind, orphan>>
    /\ UNCHANGED <<pktVars, bufVars, crashed>>
    /\ UNCHANGED <<feedVars, trackVars, joyVars>>

\* RecordVideoStartFailed with a fault: the return after the report is missing, so
\* the function goes on to set the flag and switch the menu.
RecordVideoStartFailed_NoReturn ==
    /\ uiPc = "rec_start" /\ ~crashed
    /\ procSt' = [procSt EXCEPT ![videoConverter] = "failed"]
    /\ pipeOpen' = [pipeOpen EXCEPT ![videoConverter] = FALSE]
    /\ dialog' = "Could not start video converter."
    /\ videoRecording' = TRUE
    /\ recVidSensitive' = FALSE
    /\ stopRecVidSensitive' = TRUE
    /\ uiPc' = "idle"
    /\ UNCHANGED <<videoConverter, videoWriter, nCmds, helperPc, timerFired,
                   stopLog, idleStop>>
    /\ UNCHANGED <<interrupted, killIssued, waitCalled, waitSeen,
                   stopped, timedOut, exitKind, orphan>>
    /\ UNCHANGED <<pktVars, bufVars, crashed>>
    /\ UNCHANGED <<feedVars, trackVars, joyVars>>

\* Lines 473-477 when Start fails: Start closes the pipe again, the failure is
\* reported and the function returns.
RecordVideoStartFailed ==
    /\ uiPc = "rec_start" /\ ~crashed
    /\ procSt' = [procSt EXCEPT ![videoConverter] = "failed"]
    /\ pipeOpen' = [pipeOpen EXCEPT ![videoConverter] = FALSE]
    /\ dialog' = "Could not start video converter."
    /\ uiPc' = "idle"
    /\ UNCHANGED <<videoRecording, videoConverter, videoWriter, recVidSensitive,
                   stopRecVidSensitive, nCmds, helperPc, timerFired, stopLog,
                   idleStop>>
    /\ UNCHANGED <<interrupted, killIssued, waitCalled, waitSeen,
                   stopped, timedOut, exitKind, orphan>>
    /\ UNCHANGED <<pktVars, bufVars, crashed>>
    /\ UNCHANGED <<feedVars, trackVars, joyVars>>

\* Lines 473-488 when Start succeeds: the flag is set under the lock and the
\* menu items are switched.
RecordVideoStarted ==
    /\ uiPc = "rec_start" /\ ~crashed
    /\ procSt' = [procSt EXCEPT ![videoConverter] = "running"]
    /\ videoRecording' = TRUE
    /\ recVidSensitive' = FALSE
    /\ stopRecVidSensitive' = TRUE
    /\ uiPc' = "idle"
    /\ UNCHANGED <<videoConverter, videoWriter, nCmds, dialog, helperPc,
                   timerFired, stopLog, idleStop>>
    /\ UNCHANGED <<pipeOpen, interrupted, killIssued, waitCalled,
                   waitSeen, stopped, timedOut, exitKind, orphan>>
    /\ UNCHANGED <<pktVars, bufVars, crashed>>
    /\ UNCHANGED <<feedVars, trackVars, joyVars>>

(***************************************************************************)
(* stopRecordingVideoCB                                                     *)
(***************************************************************************)

\* Lines 492-494: clear the flag under the lock. The function has no guard of
\* its own: it runs whenever it is called.
StopRecordingVideoCB ==
    /\ uiPc = "idle" /\ ~crashed
    /\ idleStop' = ~videoRecording
    /\ videoRecording' = FALSE
    /\ stopLog' = <<"flag">>
    /\ dialog' = ""
    /\ uiPc' = "stop_close"
    /\ UNCHANGED <<videoConverter, videoWriter, recVidSensitive,
                   stopRecVidSensitive, nCmds, helperPc, timerFired>>
    /\ UNCHANGED <<procVars, pktVars, bufVars, crashed>>
    /\ UNCHANGED <<feedVars, trackVars, joyVars>>

\* Line 496: videoWriter.Close(). A nil videoWriter panics; closing a pipe that
\* is already closed returns an error, which is dropped.
StopClosePipe ==
    /\ uiPc = "stop_close" /\ ~crashed
    /\ IF videoWriter = Nil
       THEN /\ crashed' = TRUE
            /\ UNCHANGED <<pipeOpen, stopLog, uiPc>>
       ELSE /\ pipeOpen' = [pipeOpen EXCEPT ![videoWriter] = FALSE]
            /\ stopLog' = Append(stopLog, "close")
            /\ uiPc' = "stop_signal"
            /\ UNCHANGED crashed
    /\ UNCHANGED <<videoRecording, videoConverter, videoWriter, recVidSensitive,
                   stopRecVidSensitive, nCmds, dialog, helperPc, timerFired,
                   idleStop>>
    /\ UNCHANGED <<procSt, interrupted, killIssued, waitCalled,
                   waitSeen, stopped, timedOut, exitKind, orphan>>
    /\ UNCHANGED <<pktVars, bufVars>>
    /\ UNCHANGED <<feedVars, trackVars, joyVars>>

\* StopInterrupt with a fault: the process is killed where it should be
\* interrupted.
StopInterrupt_Kills ==
    /\ uiPc = "stop_signal" /\ ~crashed
    /\ procSt[videoConverter] \notin {"created", "failed"}
    /\ killIssued' = [killIssued EXCEPT ![videoConverter] = TRUE]
    /\ stopLog' = Append(stopLog, "kill")
    /\ uiPc' = "stop_wait"
    /\ UNCHANGED <<videoRecording, videoConverter, videoWriter, recVidSensitive,
                   stopRecVidSensitive, nCmds, dialog, helperPc, timerFired,
                   idleStop>>
    /\ UNCHANGED <<procSt, pipeOpen, interrupted, waitCalled, waitSeen,
                   stopped, timedOut, exitKind, orphan>>
    /\ UNCHANGED <<pktVars, bufVars, crashed>>
    /\ UNCHANGED <<feedVars, trackVars, joyVars>>

\* Line 498: videoConverter.Process.Signal(os.Interrupt). Process is nil for a
\* command that was never started, and the call panics.
StopInterrupt ==
    /\ uiPc = "stop_signal" /\ ~crashed
    /\ IF procSt[videoConverter] \in {"created", "failed"}
       THEN /\ crashed' = TRUE
            /\ UNCHANGED <<interrupted, stopLog, uiPc>>
       ELSE /\ interrupted' = [interrupted EXCEPT ![videoConverter] = TRUE]
            /\ stopLog' = Append(stopLog, "signal")
            /\ uiPc' = "stop_wait"
            /\ UNCHANGED crashed
    /\ UNCHANGED <<videoRecording, videoConverter, videoWriter, recVidSensitive,
                   stopRecVidSensitive, nCmds, dialog, helperPc, timerFired,
                   idleStop>>
    /\ UNCHANGED <<procSt, pipeOpen, killIssued, waitCalled, waitSeen,
                   stopped, timedOut, exitKind, orphan>>
    /\ UNCHANGED <<pktVars, bufVars>>
    /\ UNCHANGED <<feedVars, trackVars, joyVars>>

\* Lines 500-503: start the goroutine that calls Wait and arm the 15 s timer.
\* A second Wait on the same command returns an error at once.
StopStartWait ==
    /\ uiPc = "stop_wait" /\ ~crashed
    /\ helperPc' = IF waitCalled[videoConverter] THEN "err" ELSE "wait"
    /\ waitCalled' = [waitCalled EXCEPT ![videoConverter] = TRUE]
    /\ timerFired' = FALSE
    /\ stopLog' = Append(stopLog, "wait")
    /\ uiPc' = "stop_select"
    /\ UNCHANGED <<videoRecording, videoConverter, videoWriter, recVidSensitive,
                   stopRecVidSensitive, nCmds, dialog, idleStop>>
    /\ UNCHANGED <<procSt, pipeOpen, interrupted, killIssued, waitSeen,
                   stopped, timedOut, exitKind, orphan>>
    /\ UNCHANGED <<pktVars, bufVars, crashed>>
    /\ UNCHANGED <<feedVars, trackVars, joyVars>>

\* Line 501: the goroutine of the running stop request has a value to send on
\* videoConverterDone: Wait returns once the process has exited (or at once,
\* with an error).
DoneReady ==
    \/ helperPc = "err"
    \/ helperPc = "wait" /\ procSt[videoConverter] = "exited"

\* TimerFires with a fault: the select has no timeout to wait for.
TimerFires_Never ==
    /\ FALSE
    /\ UNCHANGED vars

\* Line 503: the timer fires 15 s after it was armed. The steps of the program
\* take no time on that scale, so the timer fires only while the main thread
\* sits in the select and the goroutine sits in Wait on a live process.
TimerFires ==
    /\ uiPc = "stop_select" /\ ~crashed
    /\ ~timerFired
    /\ helperPc = "wait"
    /\ procSt[videoConverter] = "running"
    /\ timerFired' = TRUE
    /\ timedOut' = [timedOut EXCEPT ![videoConverter] = TRUE]
    /\ UNCHANGED <<videoRecording, videoConverter, videoWriter, recVidSensitive,
                   stopRecVidSensitive, uiPc, nCmds, dialog, helperPc, stopLog,
                   idleStop>>
    /\ UNCHANGED <<procSt, pipeOpen, interrupted, killIssued,
                   waitCalled, waitSeen, stopped, exitKind, orphan>>
    /\ UNCHANGED <<pktVars, bufVars, crashed>>
    /\ UNCHANGED <<feedVars, trackVars, joyVars>>

\* StopTimeout with a fault: the timeout case only logs, the Kill is missing.
StopTimeout_NoKill ==
    /\ uiPc = "stop_select" /\ ~crashed
    /\ timerFired
    /\ orphan' = [orphan EXCEPT ![videoConverter] = TRUE]
    /\ helperPc' = "none"
    /\ uiPc' = "stop_menu"
    /\ UNCHANGED <<videoRecording, videoConverter, videoWriter, recVidSensitive,
                   stopRecVidSensitive, nCmds, dialog, timerFired, stopLog,
                   idleStop>>
    /\ UNCHANGED <<procSt, pipeOpen, interrupted, killIssued,
                   waitCalled, waitSeen, stopped, timedOut, exitKind>>
    /\ UNCHANGED <<pktVars, bufVars, crashed>>
    /\ UNCHANGED <<feedVars, trackVars, joyVars>>

\* Lines 506-509: the timeout case of the select. The waiting goroutine is left
\* behind with nobody to receive from videoConverterDone.
StopTimeout ==
    /\ uiPc = "stop_select" /\ ~crashed
    /\ timerFired
    /\ killIssued' = [killIssued EXCEPT ![videoConverter] = TRUE]
    /\ orphan' = [orphan EXCEPT ![videoConverter] = TRUE]
    /\ helperPc' = "none"
    /\ stopLog' = Append(stopLog, "kill")
    /\ uiPc' = "stop_menu"
    /\ UNCHANGED <<videoRecording, videoConverter, videoWriter, recVidSensitive,
                   stopRecVidSensitive, nCmds, dialog, timerFired, idleStop>>
    /\ UNCHANGED <<procSt, pipeOpen, interrupted, waitCalled, waitSeen,
                   stopped, timedOut, exitKind>>
    /\ UNCHANGED <<pktVars, bufVars, crashed>>
    /\ UNCHANGED <<feedVars, trackVars, joyVars>>

\* StopDone with a fault: the Kill is issued after the select, whichever case ran.
StopDone_AlsoKills ==
    /\ uiPc = "stop_select" /\ ~crashed
    /\ DoneReady
    /\ waitSeen' = [waitSeen EXCEPT ![videoConverter] = @ \/ helperPc = "wait"]
    /\ killIssued' = [killIssued EXCEPT ![videoConverter] = TRUE]
    /\ helperPc' = "none"
    /\ uiPc' = "stop_menu"
    /\ UNCHANGED <<videoRecording, videoConverter, videoWriter, recVidSensitive,
                   stopRecVidSensitive, nCmds, dialog, timerFired, stopLog,
                   idleStop>>
    /\ UNCHANGED <<procSt, pipeOpen, interrupted, waitCalled, stopped,
                   timedOut, exitKind, orphan>>
    /\ UNCHANGED <<pktVars, bufVars, crashed>>
    /\ UNCHANGED <<feedVars, trackVars, joyVars>>

\* Lines 510-511: the videoConverterDone case of the select.
StopDone ==
    /\ uiPc = "stop_select" /\ ~crashed
    /\ DoneReady
    /\ waitSeen' = [waitSeen EXCEPT ![videoConverter] = @ \/ helperPc = "wait"]
    /\ helperPc' = "none"
    /\ uiPc' = "stop_menu"
    /\ UNCHANGED <<videoRecording, videoConverter, videoWriter, recVidSensitive,
                   stopRecVidSensitive, nCmds, dialog, timerFired, stopLog,
                   idleStop>>
    /\ UNCHANGED <<procSt, pipeOpen, interrupted, killIssued,
                   waitCalled, stopped, timedOut, exitKind, orphan>>
    /\ UNCHANGED <<pktVars, bufVars, crashed>>
    /\ UNCHANGED <<feedVars, trackVars, joyVars>>

\* StopMenu with a fault: the start item is enabled again, the stop item is
\* not disabled.
StopMenu_KeepsStop ==
    /\ uiPc = "stop_menu" /\ ~crashed
    /\ recVidSensitive' = TRUE
    /\ stopped' = [stopped EXCEPT ![videoConverter] = TRUE]
    /\ uiPc' = "idle"
    /\ UNCHANGED <<videoRecording, videoConverter, videoWriter, nCmds, dialog,
                   stopRecVidSensitive, helperPc, timerFired, stopLog, idleStop>>
    /\ UNCHANGED <<procSt, pipeOpen, interrupted, killIssued,
                   waitCalled, waitSeen, timedOut, exitKind, orphan>>
    /\ UNCHANGED <<pktVars, bufVars, crashed>>
    /\ UNCHANGED <<feedVars, trackVars, joyVars>>

\* Lines 514-515: switch the menu items back.
StopMenu ==
    /\ uiPc = "stop_menu" /\ ~crashed
    /\ recVidSensitive' = TRUE
    /\ stopRecVidSensitive' = FALSE
    /\ stopped' = [stopped EXCEPT ![videoConverter] = TRUE]
    /\ uiPc' = "idle"
    /\ UNCHANGED <<videoRecording, videoConverter, videoWriter, nCmds, dialog,
                   helperPc, timerFired, stopLog, idleStop>>
    /\ UNCHANGED <<procSt, pipeOpen, interrupted, killIssued,
                   waitCalled, waitSeen, timedOut, exitKind, orphan>>
    /\ UNCHANGED <<pktVars, bufVars, crashed>>
    /\ UNCHANGED <<feedVars, trackVars, joyVars>>

(***************************************************************************)
(* The converter processes                                                  *)
(***************************************************************************)

\* A running converter exits: on its own, after the end of its input, after the
\* interrupt, or because it was killed.
ProcExits(p) ==
    /\ ~crashed
    /\ procSt[p] = "running"
    /\ procSt' = [procSt EXCEPT ![p] = "exited"]
    /\ exitKind' = [exitKind EXCEPT ![p] =
                       IF killIssued[p] THEN "killed"
                       ELSE IF timedOut[p] THEN "late" ELSE "early"]
    /\ UNCHANGED <<pipeOpen, interrupted, killIssued, waitCalled,
                   waitSeen, stopped, timedOut, orphan>>
    /\ UNCHANGED <<uiVars, pktVars, bufVars, crashed>>
    /\ UNCHANGED <<feedVars, trackVars, joyVars>>

(***************************************************************************)
(* customReader and the goroutines it starts                                *)
(***************************************************************************)

\* CustomReader with a fault: the flag is not looked at, a Write is started
\* whenever there is a writer.
CustomReader_IgnoresFlag ==
    /\ ~crashed
    /\ nPulled < MaxPkts
    /\ nPulled' = nPulled + 1
    /\ pulled' = Append(pulled, [rec |-> videoRecording, w |-> videoWriter,
                                 afterFail |-> dialog # ""])
    /\ returned' = Append(returned, nPulled + 1)
    /\ IF videoWriter = Nil
       THEN UNCHANGED pending
       ELSE pending' = pending \cup {nPulled + 1}
    /\ UNCHANGED <<input, lateWrite, crashed>>
    /\ UNCHANGED <<uiVars, procVars, bufVars>>
    /\ UNCHANGED <<feedVars, trackVars, joyVars>>

\* CustomReader with a fault: a packet that is recorded is handed to the writer
\* only, the decoding library gets nothing for it.
CustomReader_DivertsRecorded ==
    /\ ~crashed
    /\ nPulled < MaxPkts
    /\ nPulled' = nPulled + 1
    /\ pulled' = Append(pulled, [rec |-> videoRecording, w |-> videoWriter,
                                 afterFail |-> dialog # ""])
    /\ IF videoRecording /\ videoWriter # Nil
       THEN pending' = pending \cup {nPulled + 1} /\ UNCHANGED returned
       ELSE returned' = Append(returned, nPulled + 1) /\ UNCHANGED pending
    /\ UNCHANGED <<input, lateWrite, crashed>>
    /\ UNCHANGED <<uiVars, procVars, bufVars>>
    /\ UNCHANGED <<feedVars, trackVars, joyVars>>

\* Lines 555-566 for a packet received from the open videoChan: under the read
\* lock, if the flag is set, start a goroutine that writes the packet to the
\* writer the go statement evaluated (a nil videoWriter panics there); then
\* return the packet to the caller.
CustomReader ==
    /\ ~crashed
    /\ nPulled < MaxPkts
    /\ nPulled' = nPulled + 1
    /\ pulled' = Append(pulled, [rec |-> videoRecording, w |-> videoWriter,
                                 afterFail |-> dialog # ""])
    /\ IF videoRecording
       THEN IF videoWriter = Nil
            THEN crashed' = TRUE /\ UNCHANGED <<pending, returned>>
            ELSE /\ pending' = pending \cup {nPulled + 1}
                 /\ returned' = Append(returned, nPulled + 1)
                 /\ UNCHANGED crashed
       ELSE /\ returned' = Append(returned, nPulled + 1)
            /\ UNCHANGED <<pending, crashed>>
    /\ UNCHANGED <<input, lateWrite>>
    /\ UNCHANGED <<uiVars, procVars, bufVars>>
    /\ UNCHANGED <<feedVars, trackVars, joyVars>>

\* WriteDelivered with a fault: the goroutine reads videoWriter when it runs,
\* not when the go statement starts it.
WriteDelivered_ToCurrentWriter(k) ==
    /\ ~crashed
    /\ k \in pending
    /\ videoWriter # Nil
    /\ pipeOpen[videoWriter]
    /\ procSt[videoWriter] \in {"created", "running"}
    /\ input' = [input EXCEPT ![videoWriter] = Append(@, k)]
    /\ pending' = pending \ {k}
    /\ UNCHANGED <<nPulled, pulled, returned, lateWrite>>
    /\ UNCHANGED <<uiVars, procVars, bufVars, crashed>>
    /\ UNCHANGED <<feedVars, trackVars, joyVars>>

\* Line 562, inside the goroutine: the Write reaches the converter's stdin.
\* Nothing makes this step happen: a converter that has stopped consuming its
\* stdin is the case in which it never does, and the Write stays blocked.
WriteDelivered(k) ==
    /\ ~crashed
    /\ k \in pending
    /\ LET w == pulled[k].w IN
        /\ pipeOpen[w]
        /\ procSt[w] \in {"created", "running"}
        /\ input' = [input EXCEPT ![w] = Append(@, k)]
    /\ pending' = pending \ {k}
    /\ UNCHANGED <<nPulled, pulled, returned, lateWrite>>
    /\ UNCHANGED <<uiVars, procVars, bufVars, crashed>>
    /\ UNCHANGED <<feedVars, trackVars, joyVars>>

\* Line 562, inside the goroutine: the Write meets a pipe that was closed in the
\* meantime (also a Write that was blocked when the pipe was closed).
WriteAfterClose(k) ==
    /\ ~crashed
    /\ k \in pending
    /\ ~pipeOpen[pulled[k].w]
    /\ lateWrite' = TRUE
    /\ pending' = pending \ {k}
    /\ UNCHANGED <<nPulled, pulled, returned, input>>
    /\ UNCHANGED <<uiVars, procVars, bufVars, crashed>>
    /\ UNCHANGED <<feedVars, trackVars, joyVars>>

\* Line 562, inside the goroutine: the Write meets a pipe whose reader is gone
\* and returns an error.
WriteBrokenPipe(k) ==
    /\ ~crashed
    /\ k \in pending
    /\ pipeOpen[pulled[k].w]
    /\ procSt[pulled[k].w] = "exited"
    /\ pending' = pending \ {k}
    /\ UNCHANGED <<nPulled, pulled, returned, input, lateWrite>>
    /\ UNCHANGED <<uiVars, procVars, bufVars, crashed>>
    /\ UNCHANGED <<feedVars, trackVars, joyVars>>

(***************************************************************************)
(* The buffered variant (first copy in src/video.go, lines 78-219):         *)
(* videoWriter is a bufio.Writer over the converter's stdin pipe, and       *)
(* customReader writes to it itself. Lines 148-168 of its stop request are   *)
(* the code of lines 498-515, so the steps StopInterrupt .. StopMenu serve   *)
(* both variants.                                                           *)
(***************************************************************************)

\* Packets the stdin pipe of a converter holds before a write to it blocks,
\* scaled to the run: with a converter that reads nothing, the last packet of
\* the run finds the bufio buffer (one packet) and the pipe full.
PipeCapacity == MaxBufPkts - 2

\* Lines 116-139, the whole request: build the command, get its stdin pipe,
\* start it, wrap the pipe in a new bufio.Writer, set the flag under the lock
\* and switch the menu items; report and return when the pipe or the start
\* fails.
BufferedRecordVideoCB ==
    /\ uiPc = "idle" /\ ~crashed
    /\ nCmds < MaxProcs
    /\ \E r \in {"pipe_failed", "start_failed", "started"} :
        LET p == nCmds + 1 IN
        /\ nCmds' = p
        /\ videoConverter' = p
        /\ procSt' = [procSt EXCEPT ![p] =
                         IF r = "started" THEN "running"
                         ELSE IF r = "start_failed" THEN "failed" ELSE "created"]
        /\ pipeOpen' = [pipeOpen EXCEPT ![p] = (r = "started")]
        /\ dialog' = IF r = "started" THEN ""
                     ELSE IF r = "start_failed"
                          THEN "Could not start video converter."
                          ELSE "Could not prepare video converter."
        /\ IF r = "started"
           THEN /\ videoWriter' = p
                /\ wbuf' = <<>>
                /\ videoRecording' = TRUE
                /\ recVidSensitive' = FALSE
                /\ stopRecVidSensitive' = TRUE
           ELSE UNCHANGED <<videoWriter, wbuf, videoRecording, recVidSensitive,
                            stopRecVidSensitive>>
    /\ UNCHANGED <<uiPc, helperPc, timerFired, stopLog, idleStop>>
    /\ UNCHANGED <<interrupted, killIssued, waitCalled, waitSeen,
                   stopped, timedOut, exitKind, orphan>>
    /\ UNCHANGED <<pktVars, crashed, readerPc, inPipe>>
    /\ UNCHANGED <<feedVars, trackVars, joyVars>>

\* Line 141: the stop request arrives and goes for the write lock.
BufferedStopRecordingVideoCB ==
    /\ uiPc = "idle" /\ ~crashed
    /\ idleStop' = ~videoRecording
    /\ stopLog' = <<>>
    /\ dialog' = ""
    /\ uiPc' = "stop_lock"
    /\ UNCHANGED <<videoRecording, videoConverter, videoWriter, recVidSensitive,
                   stopRecVidSensitive, nCmds, helperPc, timerFired>>
    /\ UNCHANGED <<procVars, pktVars, bufVars, crashed>>
    /\ UNCHANGED <<feedVars, trackVars, joyVars>>

\* BufferedStopLock with a fault: the flag is cleared without the lock, so
\* without waiting for customReader.
BufferedStopLock_NoLock ==
    /\ uiPc = "stop_lock" /\ ~crashed
    /\ videoRecording' = FALSE
    /\ stopLog' = <<"flag">>
    /\ uiPc' = "stop_flush"
    /\ UNCHANGED <<videoConverter, videoWriter, recVidSensitive,
                   stopRecVidSensitive, nCmds, dialog, helperPc, timerFired,
                   idleStop>>
    /\ UNCHANGED <<procVars, pktVars, bufVars, crashed>>
    /\ UNCHANGED <<feedVars, trackVars, joyVars>>

\* Lines 142-144: Lock waits until customReader has released the read lock;
\* then the flag is cleared.
BufferedStopLock ==
    /\ uiPc = "stop_lock" /\ ~crashed
    /\ readerPc = "idle"
    /\ videoRecording' = FALSE
    /\ stopLog' = <<"flag">>
    /\ uiPc' = "stop_flush"
    /\ UNCHANGED <<videoConverter, videoWriter, recVidSensitive,
                   stopRecVidSensitive, nCmds, dialog, helperPc, timerFired,
                   idleStop>>
    /\ UNCHANGED <<procVars, pktVars, bufVars, crashed>>
    /\ UNCHANGED <<feedVars, trackVars, joyVars>>

\* A write of the bufio buffer to the stdin pipe of command w cannot proceed:
\* the pipe is full and its reader is alive but not reading.
PipeWriteBlocks(w) ==
    /\ procSt[w] = "running"
    /\ Len(inPipe[w]) >= PipeCapacity

\* Line 146: videoWriter.Flush() hands the buffered packets to the pipe (and
\* waits for room there); with the reader gone the write fails and the
\* packets are lost. A nil videoWriter panics.
BufferedStopFlush ==
    /\ uiPc = "stop_flush" /\ ~crashed
    /\ IF videoWriter = Nil
       THEN /\ crashed' = TRUE
            /\ UNCHANGED <<wbuf, inPipe, stopLog, uiPc>>
       ELSE /\ wbuf # <<>> => ~PipeWriteBlocks(videoWriter)
            /\ wbuf' = <<>>
            /\ inPipe' = IF procSt[videoWriter] = "running"
                         THEN [inPipe EXCEPT ![videoWriter] = @ \o wbuf]
                         ELSE inPipe
            /\ stopLog' = Append(stopLog, "flush")
            /\ uiPc' = "stop_signal"
            /\ UNCHANGED crashed
    /\ UNCHANGED <<videoRecording, videoConverter, videoWriter, recVidSensitive,
                   stopRecVidSensitive, nCmds, dialog, helperPc, timerFired,
                   idleStop>>
    /\ UNCHANGED <<procVars, pktVars, readerPc>>
    /\ UNCHANGED <<feedVars, trackVars, joyVars>>

\* Lines 209-214 and 217-218 for a packet received from the open videoChan:
\* take the read lock and look at the flag; with the flag clear, release the
\* lock and return the packet; with the flag set, go on to the Write, read
\* lock held. RLock does not get past a Lock that is already waiting.
BufferedCustomReader ==
    /\ ~crashed
    /\ readerPc = "idle"
    /\ uiPc # "stop_lock"
    /\ nPulled < MaxBufPkts
    /\ nPulled' = nPulled + 1
    /\ pulled' = Append(pulled, [rec |-> videoRecording, w |-> videoWriter,
                                 afterFail |-> dialog # ""])
    /\ IF videoRecording
       THEN readerPc' = "write" /\ UNCHANGED returned
       ELSE returned' = Append(returned, nPulled + 1) /\ UNCHANGED readerPc
    /\ UNCHANGED <<pending, input, lateWrite, wbuf, inPipe, crashed>>
    /\ UNCHANGED <<uiVars, procVars>>
    /\ UNCHANGED <<feedVars, trackVars, joyVars>>

\* Lines 215-218: videoWriter.Write(pkt) on the decoder task, read lock held.
\* The packet goes into the bufio buffer; a buffer that is occupied is written
\* to the pipe first, which waits for room in the pipe (with the reader gone
\* that write fails and the buffered packet is lost). Then the lock is
\* released and the packet returned.
BufferedWrite ==
    /\ ~crashed
    /\ readerPc = "write"
    /\ wbuf # <<>> => ~PipeWriteBlocks(videoWriter)
    /\ wbuf' = <<nPulled>>
    /\ inPipe' = IF procSt[videoWriter] = "running"
                 THEN [inPipe EXCEPT ![videoWriter] = @ \o wbuf]
                 ELSE inPipe
    /\ readerPc' = "idle"
    /\ returned' = Append(returned, nPulled)
    /\ UNCHANGED <<nPulled, pulled, pending, input, lateWrite, crashed>>
    /\ UNCHANGED <<uiVars, procVars>>
    /\ UNCHANGED <<feedVars, trackVars, joyVars>>

\* The converter reads a packet from its stdin. Nothing makes it do so.
ConverterReads(p) ==
    /\ ~crashed
    /\ procSt[p] = "running"
    /\ inPipe[p] # <<>>
    /\ input' = [input EXCEPT ![p] = Append(@, Head(inPipe[p]))]
    /\ inPipe' = [inPipe EXCEPT ![p] = Tail(@)]
    /\ UNCHANGED <<nPulled, pulled, returned, pending, lateWrite, readerPc,
                   wbuf, crashed>>
    /\ UNCHANGED <<uiVars, procVars>>
    /\ UNCHANGED <<feedVars, trackVars, joyVars>>

(***************************************************************************)
(* The live feed: startVideo, videoListener (the decoder goroutine),        *)
(* customReader at the end of the stream, and updateFeed on the main thread. *)
(* The decoding library is taken to call customReader once for every coded   *)
(* unit the loop of videoListener receives, and to end the stream when       *)
(* customReader returns a zero-length result.                                *)
(***************************************************************************)

\* Everything but the feed.
recVars == <<uiVars, procVars, pktVars, crashed, bufVars, trackVars, joyVars>>

\* The steps of videoListener's setup that end the program when they fail.
SetupSteps == {"SetInputFormat", "NewAVIOContext", "OpenInput", "GetBestStream",
               "FindEncoder", "cc.Open", "ImgAlloc", "GetStream"}

\* log.Fatalf has ended the program.
Exited == decPc = "fatal"

\* The decoder sits in customReader, waiting on videoChan.
AwaitsPacket == decPc = "loop" /\ Len(unitSt) = nPulled

\* Lines 518-553: make stopFeedImageChan, start videoListener and install the
\* 30 ms timeout that calls updateFeed.
StartVideo ==
    /\ decPc = "off" /\ ~crashed
    /\ decPc' = "setup"
    /\ timerOn' = TRUE
    /\ UNCHANGED <<setupErr, chanClosed, unitSt, feedMu, feedImage,
                   newFeedImage, published, tickPc, image, shown>>
    /\ UNCHANGED recVars

\* VideoListenerSetup with a fault: a failed setup step is logged and the
\* function carries on into its loop.
VideoListenerSetup_CarriesOn ==
    /\ decPc = "setup" /\ ~crashed
    /\ \E e \in SetupSteps \cup {""} : setupErr' = e
    /\ decPc' = "loop"
    /\ UNCHANGED <<chanClosed, unitSt, feedMu, feedImage, newFeedImage,
                   published, tickPc, timerOn, image, shown>>
    /\ UNCHANGED recVars

\* Lines 578-640: the setup of the decoder. Each step that fails ends the
\* program through log.Fatalf; otherwise the loop is entered.
VideoListenerSetup ==
    /\ decPc = "setup" /\ ~crashed
    /\ \E e \in SetupSteps \cup {""} :
        /\ setupErr' = e
        /\ decPc' = IF e = "" THEN "loop" ELSE "fatal"
    /\ UNCHANGED <<chanClosed, unitSt, feedMu, feedImage, newFeedImage,
                   published, tickPc, timerOn, image, shown>>
    /\ UNCHANGED recVars

\* The library closes videoChan (the drone's video connection ends).
VideoChanCloses ==
    /\ decPc # "off" /\ ~Exited /\ ~crashed
    /\ ~chanClosed
    /\ chanClosed' = TRUE
    /\ UNCHANGED <<decPc, setupErr, unitSt, feedMu, feedImage, newFeedImage,
                   published, tickPc, timerOn, image, shown>>
    /\ UNCHANGED recVars

\* Line 642 with lines 555-566: the loop asks for the next coded unit, and
\* customReader supplies the next packet of the open videoChan.
DecoderReads ==
    /\ AwaitsPacket
    /\ ~chanClosed
    /\ CustomReader

\* Lines 556-558 on the closed videoChan: the receive returns at once and
\* customReader sends on the unbuffered stopFeedImageChan, where it stays until
\* somebody receives.
CustomReaderClosed ==
    /\ AwaitsPacket /\ ~crashed
    /\ chanClosed
    /\ decPc' = "notify"
    /\ UNCHANGED <<setupErr, chanClosed, unitSt, feedMu, feedImage,
                   newFeedImage, published, tickPc, timerOn, image, shown>>
    /\ UNCHANGED recVars

\* Lines 560-565 on the closed videoChan, after the send: the nil packet is
\* returned with length 0 (a Write of it for the recorder writes nothing); the
\* stream ends and the loop of line 642 with it.
CustomReaderEOF ==
    /\ decPc = "eof" /\ ~crashed
    /\ decPc' = "done"
    /\ UNCHANGED <<setupErr, chanClosed, unitSt, feedMu, feedImage,
                   newFeedImage, published, tickPc, timerOn, image, shown>>
    /\ UNCHANGED recVars

\* Lines 556-558 once more: the decoding library asks for more input after the
\* end of the stream, and customReader is back in its send on
\* stopFeedImageChan.
CustomReaderCalledAgain ==
    /\ decPc = "done" /\ ~crashed
    /\ chanClosed
    /\ decPc' = "notify"
    /\ UNCHANGED <<setupErr, chanClosed, unitSt, feedMu, feedImage,
                   newFeedImage, published, tickPc, timerOn, image, shown>>
    /\ UNCHANGED recVars

\* Lines 644-647: a unit of another stream is skipped.
DecodeSkips ==
    /\ decPc = "loop" /\ Len(unitSt) < nPulled /\ ~crashed
    /\ unitSt' = Append(unitSt, "skip")
    /\ UNCHANGED <<decPc, setupErr, chanClosed, feedMu, feedImage,
                   newFeedImage, published, tickPc, timerOn, image, shown>>
    /\ UNCHANGED recVars

\* DecodeFails with a fault: the loop is left on a decode error.
DecodeFails_EndsLoop ==
    /\ decPc = "loop" /\ Len(unitSt) < nPulled /\ ~crashed
    /\ unitSt' = Append(unitSt, "bad")
    /\ decPc' = "done"
    /\ UNCHANGED <<setupErr, chanClosed, feedMu, feedImage, newFeedImage,
                   published, tickPc, timerOn, image, shown>>
    /\ UNCHANGED recVars

\* Lines 649-653: pkt.Frames fails; the error is logged and the loop goes on
\* with the next unit.
DecodeFails ==
    /\ decPc = "loop" /\ Len(unitSt) < nPulled /\ ~crashed
    /\ unitSt' = Append(unitSt, "bad")
    /\ UNCHANGED <<decPc, setupErr, chanClosed, feedMu, feedImage,
                   newFeedImage, published, tickPc, timerOn, image, shown>>
    /\ UNCHANGED recVars

\* Lines 655-661 when dstFrame.Encode fails: log.Fatalf ends the program.
DecodeEncodeFatal ==
    /\ decPc = "loop" /\ Len(unitSt) < nPulled /\ ~crashed
    /\ decPc' = "fatal"
    /\ UNCHANGED <<setupErr, chanClosed, unitSt, feedMu, feedImage,
                   newFeedImage, published, tickPc, timerOn, image, shown>>
    /\ UNCHANGED recVars

\* Lines 649-665: the unit is decoded, scaled and encoded into a new RGBA
\* image; the decoder goes for the mutex.
DecodeSucceeds ==
    /\ decPc = "loop" /\ Len(unitSt) < nPulled /\ ~crashed
    /\ unitSt' = Append(unitSt, "ok")
    /\ decPc' = "publish"
    /\ UNCHANGED <<setupErr, chanClosed, feedMu, feedImage, newFeedImage,
                   published, tickPc, timerOn, image, shown>>
    /\ UNCHANGED recVars

\* Line 667: wgt.newFeedImageMu.Lock() in the decoder.
PublishLock ==
    /\ decPc = "publish" /\ ~crashed
    /\ feedMu = "free"
    /\ feedMu' = "decoder"
    /\ decPc' = "publishing"
    /\ UNCHANGED <<setupErr, chanClosed, unitSt, feedImage, newFeedImage,
                   published, tickPc, timerOn, image, shown>>
    /\ UNCHANGED recVars

\* PublishFrame with a fault: a frame that has not been displayed yet is kept,
\* the new one is dropped.
PublishFrame_KeepsUnconsumed ==
    /\ decPc = "publishing" /\ ~crashed
    /\ feedImage' = IF newFeedImage THEN feedImage ELSE Len(unitSt)
    /\ newFeedImage' = TRUE
    /\ published' = Append(published, Len(unitSt))
    /\ feedMu' = "free"
    /\ decPc' = "loop"
    /\ UNCHANGED <<setupErr, chanClosed, unitSt, tickPc, timerOn, image, shown>>
    /\ UNCHANGED recVars

\* PublishFrame with a fault: the mutex is not released.
PublishFrame_NoUnlock ==
    /\ decPc = "publishing" /\ ~crashed
    /\ feedImage' = Len(unitSt)
    /\ newFeedImage' = TRUE
    /\ published' = Append(published, Len(unitSt))
    /\ decPc' = "loop"
    /\ UNCHANGED <<setupErr, chanClosed, unitSt, feedMu, tickPc, timerOn,
                   image, shown>>
    /\ UNCHANGED recVars

\* Lines 668-670: store the frame, set the dirty flag, unlock.
PublishFrame ==
    /\ decPc = "publishing" /\ ~crashed
    /\ feedImage' = Len(unitSt)
    /\ newFeedImage' = TRUE
    /\ published' = Append(published, Len(unitSt))
    /\ feedMu' = "free"
    /\ decPc' = "loop"
    /\ UNCHANGED <<setupErr, chanClosed, unitSt, tickPc, timerOn, image, shown>>
    /\ UNCHANGED recVars

\* Line 682: the timeout calls updateFeed on the main thread, which must be
\* free for it.
UpdateFeedTick ==
    /\ timerOn /\ ~Exited /\ ~crashed
    /\ tickPc = "idle" /\ uiPc = "idle"
    /\ tickPc' = "lock"
    /\ UNCHANGED <<decPc, setupErr, chanClosed, unitSt, feedMu, feedImage,
                   newFeedImage, published, timerOn, image, shown>>
    /\ UNCHANGED recVars

\* Line 683: wgt.newFeedImageMu.Lock() in updateFeed.
UpdateFeedLock ==
    /\ tickPc = "lock" /\ ~Exited /\ ~crashed
    /\ feedMu = "free"
    /\ feedMu' = "ui"
    /\ tickPc' = "locked"
    /\ UNCHANGED <<decPc, setupErr, chanClosed, unitSt, feedImage,
                   newFeedImage, published, timerOn, image, shown>>
    /\ UNCHANGED recVars

\* UpdateFeedShow with a fault: the dirty flag is not cleared.
UpdateFeedShow_KeepsFlag ==
    /\ tickPc = "locked" /\ ~Exited /\ ~crashed
    /\ IF newFeedImage
       THEN /\ image' = feedImage
            /\ shown' = Append(shown, feedImage)
       ELSE UNCHANGED <<image, shown>>
    /\ feedMu' = "free"
    /\ tickPc' = "select"
    /\ UNCHANGED <<decPc, setupErr, chanClosed, unitSt, feedImage,
                   newFeedImage, published, timerOn>>
    /\ UNCHANGED recVars

\* Lines 684-701: with the dirty flag set, put the frame on wgt.image and clear
\* the flag; unlock.
UpdateFeedShow ==
    /\ tickPc = "locked" /\ ~Exited /\ ~crashed
    /\ IF newFeedImage
       THEN /\ image' = feedImage
            /\ shown' = Append(shown, feedImage)
            /\ newFeedImage' = FALSE
       ELSE UNCHANGED <<image, shown, newFeedImage>>
    /\ feedMu' = "free"
    /\ tickPc' = "select"
    /\ UNCHANGED <<decPc, setupErr, chanClosed, unitSt, feedImage,
                   published, timerOn>>
    /\ UNCHANGED recVars

\* UpdateFeedSelect with a fault: the stop signal is received, but the timer
\* is kept and the last frame stays on wgt.image.
UpdateFeedSelect_KeepsTimer ==
    /\ tickPc = "select" /\ ~Exited /\ ~crashed
    /\ decPc' = IF decPc = "notify" THEN "eof" ELSE decPc
    /\ tickPc' = "idle"
    /\ UNCHANGED <<setupErr, chanClosed, unitSt, feedMu, feedImage,
                   newFeedImage, published, timerOn, image, shown>>
    /\ UNCHANGED recVars

\* Lines 703-711: the non-blocking receive on stopFeedImageChan. With
\* customReader waiting in its send, the value is received (the send returns),
\* the placeholder is restored and false is returned, which removes the
\* timeout; otherwise updateFeed returns true.
UpdateFeedSelect ==
    /\ tickPc = "select" /\ ~Exited /\ ~crashed
    /\ IF decPc = "notify"
       THEN /\ decPc' = "eof"
            /\ image' = BlueSky
            /\ timerOn' = FALSE
       ELSE UNCHANGED <<decPc, image, timerOn>>
    /\ tickPc' = "idle"
    /\ UNCHANGED <<setupErr, chanClosed, unitSt, feedMu, feedImage,
                   newFeedImage, published, shown>>
    /\ UNCHANGED recVars

(***************************************************************************)
(* Specifications                                                           *)
(***************************************************************************)

\* The start item of the menu is activated: GTK delivers the activation only
\* while the item is sensitive.
MenuRecordVideo == recVidSensitive /\ RecordVideoCB

\* The stop item of the menu is activated.
MenuStopRecording == stopRecVidSensitive /\ StopRecordingVideoCB

\* What happens besides the arrival of a request.
Background ==
    \/ RecordVideoStartFailed
    \/ RecordVideoStarted
    \/ StopClosePipe
    \/ StopInterrupt
    \/ StopStartWait
    \/ TimerFires
    \/ StopTimeout
    \/ StopDone
    \/ StopMenu
    \/ \E p \in Procs : ProcExits(p)
    \/ CustomReader
    \/ \E k \in Pkts : WriteDelivered(k)
    \/ \E k \in Pkts : WriteAfterClose(k)
    \/ \E k \in Pkts : WriteBrokenPipe(k)

\* The program driven through its menu.
Next == MenuRecordVideo \/ MenuStopRecording \/ Background

Spec == Init /\ [][Next]_vars

\* The two callbacks called in any state of the controller.
NextCalls == RecordVideoCB \/ StopRecordingVideoCB \/ Background

SpecCalls == Init /\ [][NextCalls]_vars

\* The program driven through its menu, with the scheduling the Go runtime
\* gives: the main thread runs when it can, and an armed timer fires.
\* (The steps of a stop request are enabled one position of the main thread at
\* a time, so one fairness condition on their disjunction serves for all.)
StopStep ==
    \/ StopClosePipe
    \/ StopInterrupt
    \/ StopStartWait
    \/ StopTimeout
    \/ StopDone
    \/ StopMenu

FairSpec ==
    /\ Spec
    /\ WF_vars(StopStep)
    /\ WF_vars(TimerFires)

\* The menu items under the buffered variant.
MenuRecordVideoBuffered == recVidSensitive /\ BufferedRecordVideoCB

MenuStopRecordingBuffered == stopRecVidSensitive /\ BufferedStopRecordingVideoCB

\* The buffered variant driven through its menu.
NextBuffered ==
    \/ MenuRecordVideoBuffered
    \/ MenuStopRecordingBuffered
    \/ BufferedStopLock
    \/ BufferedStopFlush
    \/ StopInterrupt
    \/ StopStartWait
    \/ TimerFires
    \/ StopTimeout
    \/ StopDone
    \/ StopMenu
    \/ \E p \in Procs : ProcExits(p)
    \/ BufferedCustomReader
    \/ BufferedWrite
    \/ \E p \in Procs : ConverterReads(p)

SpecBuffered == Init /\ [][NextBuffered]_vars

\* The live feed, with no recording requests.
NextFeed ==
    \/ StartVideo
    \/ VideoListenerSetup
    \/ VideoChanCloses
    \/ DecoderReads
    \/ CustomReaderClosed
    \/ CustomReaderEOF
    \/ DecodeSkips
    \/ DecodeFails
    \/ DecodeEncodeFatal
    \/ DecodeSucceeds
    \/ PublishLock
    \/ PublishFrame
    \/ UpdateFeedTick
    \/ UpdateFeedLock
    \/ UpdateFeedShow
    \/ UpdateFeedSelect

FeedSpec == Init /\ [][NextFeed]_vars

\* The live feed with the scheduling of the main thread and of a goroutine
\* that holds the mutex: a call of updateFeed runs on, a Lock that can succeed
\* again and again does, and the holder of the mutex gets to release it.
FeedFairSpec ==
    /\ FeedSpec
    /\ SF_vars(UpdateFeedLock)
    /\ WF_vars(UpdateFeedShow)
    /\ WF_vars(UpdateFeedSelect)
    /\ WF_vars(PublishFrame)

\* The same, and the display timer keeps ticking and the decoder goroutine keeps
\* running; nothing is assumed about the arrival of packets.
FeedLiveSpec ==
    /\ FeedFairSpec
    /\ WF_vars(UpdateFeedTick)
    /\ WF_vars(VideoListenerSetup)
    /\ WF_vars(CustomReaderClosed)
    /\ WF_vars(CustomReaderEOF)
    /\ WF_vars(DecodeSkips \/ DecodeFails \/ DecodeEncodeFatal \/ DecodeSucceeds)
    /\ SF_vars(PublishLock)

\* The recorder and the live feed together. The menu callbacks and updateFeed
\* all run on the GTK main thread: a request is taken up only between two
\* calls of updateFeed, and (UpdateFeedTick) updateFeed is called only between
\* two requests.
NextDesk ==
    \/ tickPc = "idle" /\ MenuRecordVideo
    \/ tickPc = "idle" /\ MenuStopRecording
    \/ RecordVideoStartFailed
    \/ RecordVideoStarted
    \/ StopStep
    \/ TimerFires
    \/ \E p \in Procs : ProcExits(p)
    \/ \E k \in Pkts : WriteDelivered(k)
    \/ \E k \in Pkts : WriteAfterClose(k)
    \/ \E k \in Pkts : WriteBrokenPipe(k)
    \/ NextFeed

DeskSpec == Init /\ [][NextDesk]_vars

\* The live feed with a decoding library that may call customReader again
\* after it has been given the zero-length result.
NextFeedCalls == NextFeed \/ CustomReaderCalledAgain

FeedCallsSpec == Init /\ [][NextFeedCalls]_vars

(***************************************************************************)
(* The flight track (src/unnamed/part_000)                                  *)
(*                                                                          *)
(* mvoX, mvoY and minDist are finite numbers counted in centimetres,        *)
(* heightDm in decimetres as in the source.                                 *)
(***************************************************************************)

\* The largest number of positions a track or a CSV file holds in a run.
MaxTrack == 3

\* The values a flight-data report carries in a run.
MvoXs == {-150, 0}
MvoYs == {0, 5}
HeightDms == {0, 1}
Yaws == {0, 1}
Reports == [heightDm : HeightDms, mvoX : MvoXs, mvoY : MvoYs, imuYaw : Yaws]

\* The minDist values simplify is called with: below the range, its lowest
\* and highest valid value, above the range.
MinDists == {5, 10, 200, 205}

\* The rows of a CSV file: a row toStruct turns into a position (level
\* flight, facing ahead), a row the csv.Reader fails on, a row whose yaw
\* toStruct cannot parse.
FileReports == {r \in Reports : r.heightDm = 0 /\ r.imuYaw = 0}
FileRows ==
    [kind : {"ok"}, pos : FileReports]
        \cup [kind : {"readerr", "parseerr"}, pos : {ZeroPos}]
Files == UNION {[1..n -> FileRows] : n \in 0..MaxTrack}

\* Everything outside the track.
deskVars == <<uiVars, procVars, pktVars, crashed, bufVars, feedVars, joyVars>>

Abs(a) == IF a < 0 THEN -a ELSE a

\* Fault variant: only the upper bounds follow the new position.
WithBounds_UpperOnly(t, pos) ==
    [t EXCEPT !.maxX = IF pos.mvoX > @ THEN pos.mvoX ELSE @,
              !.maxY = IF pos.mvoY > @ THEN pos.mvoY ELSE @,
              !.maxHeightDm = IF pos.heightDm > @ THEN pos.heightDm ELSE @]

\* The bound updates that follow an append in addPositionIfChanged and in readTrack.
WithBounds(t, pos) ==
    [t EXCEPT !.minX = IF pos.mvoX < @ THEN pos.mvoX ELSE @,
              !.maxX = IF pos.mvoX > @ THEN pos.mvoX ELSE @,
              !.minY = IF pos.mvoY < @ THEN pos.mvoY ELSE @,
              !.maxY = IF pos.mvoY > @ THEN pos.mvoY ELSE @,
              !.minHeightDm = IF pos.heightDm < @ THEN pos.heightDm ELSE @,
              !.maxHeightDm = IF pos.heightDm > @ THEN pos.heightDm ELSE @]

\* Fault variant: the yaw is not compared.
NothingChanged_IgnoresYaw(lastPos, newPos) ==
    /\ lastPos.heightDm = newPos.heightDm
    /\ lastPos.mvoX = newPos.mvoX
    /\ lastPos.mvoY = newPos.mvoY

\* The comparison of addPositionIfChanged: the report repeats the last position.
NothingChanged(lastPos, newPos) ==
    /\ lastPos.heightDm = newPos.heightDm
    /\ lastPos.mvoX = newPos.mvoX
    /\ lastPos.mvoY = newPos.mvoY
    /\ lastPos.imuYaw = newPos.imuYaw

\* Whether addPositionIfChanged appends the report to track t.
Appends(t, newPos) ==
    IF Len(t.positions) = 0
    THEN newPos.heightDm # 0 \/ newPos.mvoX # 0 \/ newPos.mvoY # 0
    ELSE ~NothingChanged(t.positions[Len(t.positions)], newPos)

\* Whether addPositionIfChanged reaches its bound updates: always on an empty
\* track, on a non-empty one unless it returned early.
ReachesBounds(t, newPos) == Len(t.positions) = 0 \/ Appends(t, newPos)

\* The track after a whole call of addPositionIfChanged.
AddResult(t, newPos) ==
    LET appended == IF Appends(t, newPos)
                    THEN [t EXCEPT !.positions = Append(@, newPos)]
                    ELSE t
    IN  IF ReachesBounds(t, newPos) THEN WithBounds(appended, newPos) ELSE appended

\* The minDist values (cm) whose float32 form, widened to float64, lies above
\* the float64 quotient heightDm difference / 10.0 of the same nominal length:
\* a height difference of exactly minDist then compares as smaller.
WidenedAbove == {10, 20, 30, 40, 60, 80, 110, 120, 160, 170}

\* zdiff < min64 for a height difference of dh decimetres.
ZBelow(dh, m) == dh * 10 < m \/ (dh * 10 = m /\ m \in WidenedAbove)

\* Fault variant: one near axis is enough to drop thisPos.
Within_AnyAxis(lastPos, thisPos, m) ==
    \/ Abs(lastPos.mvoX - thisPos.mvoX) < m
    \/ Abs(lastPos.mvoY - thisPos.mvoY) < m
    \/ ZBelow(Abs(lastPos.heightDm - thisPos.heightDm), m)

\* The test of simplify's loop: thisPos is dropped.
Within(lastPos, thisPos, m) ==
    /\ Abs(lastPos.mvoX - thisPos.mvoX) < m
    /\ Abs(lastPos.mvoY - thisPos.mvoY) < m
    /\ ZBelow(Abs(lastPos.heightDm - thisPos.heightDm), m)

\* positions without its element at index ix (1-based).
RemoveAt(ps, ix) == SubSeq(ps, 1, ix - 1) \o SubSeq(ps, ix + 1, Len(ps))

\* Fault variant: thisIx also moves on after a drop, so the position that
\* follows a dropped one is kept unexamined.
RECURSIVE SimplifyLoop_SkipsAfterDrop(_, _, _, _)
SimplifyLoop_SkipsAfterDrop(ps, lastPos, thisIx, m) ==
    IF thisIx > Len(ps) THEN ps
    ELSE IF Within(lastPos, ps[thisIx], m)
         THEN SimplifyLoop_SkipsAfterDrop(RemoveAt(ps, thisIx), lastPos, thisIx + 1, m)
         ELSE SimplifyLoop_SkipsAfterDrop(ps, ps[thisIx], thisIx + 1, m)

\* simplify's loop from (lastPos, thisIx) to its end.
RECURSIVE SimplifyLoop(_, _, _, _)
SimplifyLoop(ps, lastPos, thisIx, m) ==
    IF thisIx > Len(ps) THEN ps
    ELSE IF Within(lastPos, ps[thisIx], m)
         THEN SimplifyLoop(RemoveAt(ps, thisIx), lastPos, thisIx, m)
         ELSE SimplifyLoop(ps, ps[thisIx], thisIx + 1, m)

\* Fault variant: only the track length is checked.
SimplifyIgnored_NoRange(ps, m) == Len(ps) < 3

\* simplify's two early returns.
SimplifyIgnored(ps, m) == m < 10 \/ m > 200 \/ Len(ps) < 3

\* The positions after a whole call of simplify(minDist).
Simplified(ps, m) ==
    IF SimplifyIgnored(ps, m) THEN ps ELSE SimplifyLoop(ps, ps[1], 2, m)

\* toStruct on a row it returns no error for: the ParseFloat error of a
\* field that is not a number is dropped and the field is left 0 ("badx": the
\* mvoX field of the row is not a number).
toStruct(row) == IF row.kind = "badx" THEN [row.pos EXCEPT !.mvoX = 0] ELSE row.pos

\* toStruct indexes strings[1] to strings[4]: a first row of fewer than five
\* fields ("short") panics. The csv.Reader takes the field count of the
\* first row, so a later row of another length is a read error.
ReadPanics(file) == Len(file) >= 1 /\ file[1].kind = "short"

\* readTrack's loop from row i of the file on.
RECURSIVE ReadRows(_, _, _)
ReadRows(trk, file, i) ==
    IF i > Len(file) THEN trk
    ELSE IF file[i].kind \in {"readerr", "parseerr", "short"} THEN trk
    ELSE ReadRows(WithBounds([trk EXCEPT !.positions = Append(@, toStruct(file[i]))],
                             toStruct(file[i])),
                  file, i + 1)

\* deriveScale, in centimetres: the largest of 1 m and the four bounds,
\* rounded up to whole metres.
deriveScale(t) ==
    LET s0 == 100
        s1 == IF t.maxX > s0 THEN t.maxX ELSE s0
        s2 == IF -t.minX > s1 THEN -t.minX ELSE s1
        s3 == IF t.maxY > s2 THEN t.maxY ELSE s2
        s4 == IF -t.minY > s3 THEN -t.minY ELSE s3
    IN  ((s4 + 99) \div 100) * 100

\* A whole call of addPositionIfChanged with report r.
AddPositionIfChanged(r) ==
    /\ addPc.pc = "idle"
    /\ trackPc.pc = "idle"
    /\ Len(AddResult(liveTrack, r).positions) <= MaxTrack
    /\ liveTrack' = AddResult(liveTrack, r)
    /\ called' = [op |-> "add", arg |-> r, pre |-> liveTrack]
    /\ UNCHANGED <<trackMu, addPc, trackPc>>
    /\ UNCHANGED deskVars

\* A whole call of simplify(m) from simplifyCB.
Simplify(m) ==
    /\ addPc.pc = "idle"
    /\ trackPc.pc = "idle"
    /\ liveTrack' = [liveTrack EXCEPT !.positions = Simplified(@, m)]
    /\ called' = [op |-> "simplify", arg |-> m, pre |-> liveTrack]
    /\ UNCHANGED <<trackMu, addPc, trackPc>>
    /\ UNCHANGED deskVars

\* importTrackCB on an opened file: liveTrack = readTrack(r).
ReadTrack(file) ==
    /\ ~crashed
    /\ addPc.pc = "idle"
    /\ trackPc.pc = "idle"
    /\ IF ReadPanics(file)
       THEN crashed' = TRUE /\ UNCHANGED liveTrack
       ELSE liveTrack' = ReadRows(newTrack, file, 1) /\ UNCHANGED crashed
    /\ called' = [op |-> "read", arg |-> file, pre |-> newTrack]
    /\ UNCHANGED <<trackMu, addPc, trackPc>>
    /\ UNCHANGED <<uiVars, procVars, pktVars, bufVars, feedVars, joyVars>>

\* The live track: flight-data reports and the Simplify menu item.
NextTrack ==
    \/ \E r \in Reports : AddPositionIfChanged(r)
    \/ \E m \in MinDists : Simplify(m)

TrackSpec == Init /\ [][NextTrack]_vars

\* The Import Track menu item, with flight-data reports before and after it.
NextTrackFile ==
    \/ \E r \in FileReports : AddPositionIfChanged(r)
    \/ \E file \in Files : ReadTrack(file)

TrackFileSpec == Init /\ [][NextTrackFile]_vars

\* The reports of the runs that follow the calls statement by statement.
StepReports == {r \in Reports : r.mvoY = 0 /\ r.imuYaw = 0}

\* addPositionIfChanged up to its decision, taken from an unlocked read of
\* tt.positions: return, go for the lock, or go on to the bound updates.
AddBegin(r) ==
    /\ addPc.pc = "idle"
    /\ Appends(liveTrack, r) => Len(liveTrack.positions) < MaxTrack
    /\ addPc' = IF Appends(liveTrack, r) THEN [pc |-> "lock", newPos |-> r]
                ELSE IF ReachesBounds(liveTrack, r) THEN [pc |-> "bounds", newPos |-> r]
                ELSE addPc
    /\ UNCHANGED <<liveTrack, trackMu, called, trackPc>>
    /\ UNCHANGED deskVars

\* tt.trackMu.Lock()
AddLock ==
    /\ addPc.pc = "lock"
    /\ trackMu = "free"
    /\ trackMu' = "w"
    /\ addPc' = [addPc EXCEPT !.pc = "append"]
    /\ UNCHANGED <<liveTrack, called, trackPc>>
    /\ UNCHANGED deskVars

\* tt.positions = append(tt.positions, newPos); tt.trackMu.Unlock()
AddAppend ==
    /\ addPc.pc = "append"
    /\ liveTrack' = [liveTrack EXCEPT !.positions = Append(@, addPc.newPos)]
    /\ trackMu' = "free"
    /\ addPc' = [addPc EXCEPT !.pc = "bounds"]
    /\ UNCHANGED <<called, trackPc>>
    /\ UNCHANGED deskVars

\* The same statements racing with simplify's unlocked store to tt.positions:
\* the slice simplify stores was cut from the one read before the append,
\* and the appended position is gone.
AddAppendLost ==
    /\ addPc.pc = "append"
    /\ trackPc.pc = "simplify"
    /\ trackMu' = "free"
    /\ addPc' = [addPc EXCEPT !.pc = "bounds"]
    /\ UNCHANGED <<liveTrack, called, trackPc>>
    /\ UNCHANGED deskVars

\* The bound updates, made after the Unlock.
AddBounds ==
    /\ addPc.pc = "bounds"
    /\ liveTrack' = WithBounds(liveTrack, addPc.newPos)
    /\ addPc' = [addPc EXCEPT !.pc = "idle"]
    /\ UNCHANGED <<trackMu, called, trackPc>>
    /\ UNCHANGED deskVars

\* simplify(m) up to its loop: the two early returns, lastPos, thisIx.
SimplifyBegin(m) ==
    /\ trackPc.pc = "idle"
    /\ trackPc' = IF SimplifyIgnored(liveTrack.positions, m) THEN trackPc
                  ELSE [pc |-> "simplify", lastPos |-> liveTrack.positions[1],
                        thisIx |-> 2, minDist |-> m]
    /\ UNCHANGED <<liveTrack, trackMu, called, addPc>>
    /\ UNCHANGED deskVars

\* One pass of simplify's loop, or its end. trackMu is not touched.
SimplifyStep ==
    /\ trackPc.pc = "simplify"
    /\ IF trackPc.thisIx > Len(liveTrack.positions)
       THEN /\ trackPc' = [trackPc EXCEPT !.pc = "idle"]
            /\ UNCHANGED liveTrack
       ELSE IF Within(trackPc.lastPos, liveTrack.positions[trackPc.thisIx],
                      trackPc.minDist)
       THEN /\ liveTrack' = [liveTrack EXCEPT
                                !.positions = RemoveAt(@, trackPc.thisIx)]
            /\ UNCHANGED trackPc
       ELSE /\ trackPc' = [trackPc EXCEPT
                              !.lastPos = liveTrack.positions[trackPc.thisIx],
                              !.thisIx = @ + 1]
            /\ UNCHANGED liveTrack
    /\ UNCHANGED <<trackMu, called, addPc>>
    /\ UNCHANGED deskVars

\* exportTrackCB with the file created: liveTrack.trackMu.RLock()
ExportRLock ==
    /\ trackPc.pc = "idle"
    /\ trackMu = "free"
    /\ trackMu' = "r"
    /\ trackPc' = [trackPc EXCEPT !.pc = "export"]
    /\ UNCHANGED <<liveTrack, called, addPc>>
    /\ UNCHANGED deskVars

\* The rows are written and the lock released.
ExportRUnlock ==
    /\ trackPc.pc = "export"
    /\ called' = [op |-> "export", arg |-> liveTrack.positions, pre |-> liveTrack]
    /\ trackMu' = "free"
    /\ trackPc' = [trackPc EXCEPT !.pc = "idle"]
    /\ UNCHANGED <<liveTrack, addPc>>
    /\ UNCHANGED deskVars

\* The flight-data task and the main thread, statement by statement.
NextTrackSteps ==
    \/ \E r \in StepReports : AddBegin(r)
    \/ AddLock
    \/ AddAppend
    \/ AddAppendLost
    \/ AddBounds
    \/ \E m \in MinDists : SimplifyBegin(m)
    \/ SimplifyStep
    \/ ExportRLock
    \/ ExportRUnlock

TrackStepsSpec == Init /\ [][NextTrackSteps]_vars

\* The longest imported track simplify is run on.
MaxLongTrack == MaxTrack + 1

\* The rows of the longer files: the origin, 1 dm above it, 1.5 m beside it.
LongRows ==
    [kind : {"ok"},
     pos : {r \in Reports : /\ r.mvoY = 0 /\ r.imuYaw = 0
                             /\ (r.mvoX = 0 \/ r.heightDm = 0)}]
LongFiles == UNION {[1..n -> LongRows] : n \in 0..MaxLongTrack}

\* An imported track and the Simplify menu item, used any number of times.
NextSimplifyTwice ==
    \/ \E file \in LongFiles : ReadTrack(file)
    \/ \E m \in MinDists : Simplify(m)

SimplifyTwiceSpec == Init /\ [][NextSimplifyTwice]_vars

\* The rows of the files of the import runs: rows with five well-formed
\* fields, rows whose mvoX field is not a number, rows the csv.Reader fails
\* on, rows whose yaw is not an integer, rows of fewer than five fields.
ImportRows ==
    [kind : {"ok", "badx"}, pos : {r \in FileReports : r.mvoX # 0}]
        \cup [kind : {"readerr", "parseerr", "short"}, pos : {ZeroPos}]
ImportFiles == UNION {[1..n -> ImportRows] : n \in 0..MaxTrack}

\* The Import Track menu item on files of every kind.
NextImport == \E file \in ImportFiles : ReadTrack(file)

ImportSpec == Init /\ [][NextImport]_vars

(***************************************************************************)
(* The track of src/tracker.go (the g3n build). Its track struct has no     *)
(* height bounds; liveTrack stands for the track the chart holds.           *)
(***************************************************************************)

\* The reports and CSV rows of a run: level flight facing ahead, up to 1.5 m
\* to the negative side of x and 2.5 m to the positive side of y.
G3nReports == [heightDm : {0}, mvoX : MvoXs, mvoY : {0, 250}, imuYaw : {0}]
G3nFileRows ==
    [kind : {"ok"}, pos : G3nReports]
        \cup [kind : {"readerr", "parseerr"}, pos : {ZeroPos}]
G3nFiles == UNION {[1..n -> G3nFileRows] : n \in 0..MaxTrack}

\* The switch that follows the append: only its first true case runs.
G3nWithBounds(t, pos) ==
    IF pos.mvoX < t.minX THEN [t EXCEPT !.minX = pos.mvoX]
    ELSE IF pos.mvoX > t.maxX THEN [t EXCEPT !.maxX = pos.mvoX]
    ELSE IF pos.mvoY < t.minY THEN [t EXCEPT !.minY = pos.mvoY]
    ELSE IF pos.mvoY > t.maxY THEN [t EXCEPT !.maxY = pos.mvoY]
    ELSE t

\* The track after a whole call of addPositionIfChanged: the first position
\* is appended with no bound update, later reports reach the switch whether
\* they were appended or not.
G3nAddResult(t, pos) ==
    IF Len(t.positions) = 0
    THEN [t EXCEPT !.positions = Append(@, pos)]
    ELSE LET lastPos == t.positions[Len(t.positions)]
             changed == \/ lastPos.heightDm # pos.heightDm
                        \/ lastPos.mvoX # pos.mvoX
                        \/ lastPos.mvoY # pos.mvoY
                        \/ lastPos.imuYaw # pos.imuYaw
         IN  G3nWithBounds(IF changed THEN [t EXCEPT !.positions = Append(@, pos)]
                           ELSE t,
                           pos)

\* readTrack's loop from row i of the file on.
RECURSIVE G3nReadRows(_, _, _)
G3nReadRows(trk, file, i) ==
    IF i > Len(file) THEN trk
    ELSE IF file[i].kind \in {"readerr", "parseerr"} THEN trk
    ELSE G3nReadRows(G3nWithBounds([trk EXCEPT !.positions = Append(@, file[i].pos)],
                                   file[i].pos),
                     file, i + 1)

\* deriveScale of src/tracker.go, in centimetres.
G3nDeriveScale(t) ==
    LET s0 == 100
        s1 == IF t.maxX > s0 THEN t.maxX ELSE s0
        s2 == IF -t.minX > s1 THEN -t.minX ELSE s1
        s3 == IF t.maxY > s2 THEN t.maxY ELSE s2
        s4 == IF -t.minY > s3 THEN -t.minY ELSE s3
    IN  ((s4 + 99) \div 100) * 100

\* A whole call of addPositionIfChanged with report r.
G3nAddPositionIfChanged(r) ==
    /\ addPc.pc = "idle"
    /\ trackPc.pc = "idle"
    /\ Len(G3nAddResult(liveTrack, r).positions) <= MaxTrack
    /\ liveTrack' = G3nAddResult(liveTrack, r)
    /\ called' = [op |-> "add", arg |-> r, pre |-> liveTrack]
    /\ UNCHANGED <<trackMu, addPc, trackPc>>
    /\ UNCHANGED deskVars

\* importTrackCB on an opened file: the chart gets the track readTrack returns.
G3nReadTrack(file) ==
    /\ addPc.pc = "idle"
    /\ trackPc.pc = "idle"
    /\ liveTrack' = G3nReadRows(newTrack, file, 1)
    /\ called' = [op |-> "read", arg |-> file, pre |-> newTrack]
    /\ UNCHANGED <<trackMu, addPc, trackPc>>
    /\ UNCHANGED deskVars

NextG3nTrack ==
    \/ \E r \in G3nReports : G3nAddPositionIfChanged(r)
    \/ \E file \in G3nFiles : G3nReadTrack(file)

G3nTrackSpec == Init /\ [][NextG3nTrack]_vars

(***************************************************************************)
(* The joystick (src/joystick.go)                                           *)
(***************************************************************************)

\* The largest number of polls of a run.
MaxPolls == 3

deadZone == 2000
maxZone == 16000
maxVal == 32767

\* The raw axis readings of a run: the ends of the range and both sides of
\* every threshold.
AxisReadings ==
    {-32768, -32767, -16001, -16000, -2000, -1999, 0,
     1999, 2000, 16000, 16001, 32767, 32768}

\* The buttons whose actions readJoystick triggers for every joystick type.
ActionButtons ==
    {"btnTakePhoto", "btnTakeoff", "btnLand", "btnSetHome", "btnReturnHome",
     "btnCancelAuto"}

\* The button states of a run: at most two action buttons down at once.
Presses == {bs \in SUBSET ActionButtons : Cardinality(bs) <= 2}

\* Everything outside the joystick.
nonJoyVars == <<uiVars, procVars, pktVars, crashed, bufVars, feedVars, trackVars>>

\* Conversion to int16 and int16 arithmetic: the value wraps.
Int16(v) == ((v + 32768) % 65536) - 32768

\* intAbs: the negation is an int16 negation.
intAbs(x) == IF x < 0 THEN Int16(-x) ELSE x

\* Go's integer division, which truncates towards zero.
Quot(a, b) == IF a < 0 THEN -((-a) \div b) ELSE a \div b

\* The value read for an X axis (negated is FALSE) or a Y axis.
AxisValue(r, negated) ==
    IF r = 32768 THEN (IF negated THEN -maxVal ELSE maxVal)
    ELSE IF negated THEN Int16(-Int16(r)) ELSE Int16(r)

\* The stick value readJoystick sends for raw reading r.
StickValue(r, negated, slowMode) ==
    LET v0 == AxisValue(r, negated)
        v1 == IF intAbs(v0) < deadZone THEN 0 ELSE v0
        v2 == IF slowMode THEN Quot(v1, 3) ELSE v1
    IN  IF v2 > maxZone THEN maxVal
        ELSE IF v2 < -maxZone THEN -maxVal
        ELSE v2

\* The test made for every action button: down now, up in the poll before.
Triggered(b, cur, prev) == b \in cur.Buttons /\ b \notin prev.Buttons

\* Fault variant of a poll: prevState is not updated at the end.
ReadJoystick_KeepsPrevState(axisData, buttons) ==
    LET slowMode == "btnSlowMode" \in buttons
        cur == [AxisData |-> axisData, Buttons |-> buttons]
    IN  /\ Len(pollLog) < MaxPolls
        /\ jsState' = cur
        /\ sm' = [Rx |-> StickValue(axisData["axLeftX"], FALSE, slowMode),
                  Ry |-> StickValue(axisData["axLeftY"], TRUE, slowMode),
                  Lx |-> StickValue(axisData["axRightX"], FALSE, slowMode),
                  Ly |-> StickValue(axisData["axRightY"], TRUE, slowMode)]
        /\ pollLog' = Append(pollLog,
                             [Buttons |-> buttons,
                              calls |-> {b \in ActionButtons :
                                            Triggered(b, cur, prevState)}])
        /\ UNCHANGED prevState
        /\ UNCHANGED nonJoyVars

\* One pass of readJoystick's loop (test is false): js.Read() returns the
\* state, the stick message is sent, the actions of the buttons that went
\* down are called, prevState = jsState.
ReadJoystick(axisData, buttons) ==
    LET slowMode == "btnSlowMode" \in buttons
        cur == [AxisData |-> axisData, Buttons |-> buttons]
    IN  /\ Len(pollLog) < MaxPolls
        /\ jsState' = cur
        /\ sm' = [Rx |-> StickValue(axisData["axLeftX"], FALSE, slowMode),
                  Ry |-> StickValue(axisData["axLeftY"], TRUE, slowMode),
                  Lx |-> StickValue(axisData["axRightX"], FALSE, slowMode),
                  Ly |-> StickValue(axisData["axRightY"], TRUE, slowMode)]
        /\ pollLog' = Append(pollLog,
                             [Buttons |-> buttons,
                              calls |-> {b \in ActionButtons :
                                            Triggered(b, cur, prevState)}])
        /\ prevState' = cur
        /\ UNCHANGED nonJoyVars

\* Polls with one axis deflected, the slow mode button up or down.
NextStick ==
    \E a \in Axes, r \in AxisReadings, slow \in BOOLEAN :
        ReadJoystick([x \in Axes |-> IF x = a THEN r ELSE 0],
                     IF slow THEN {"btnSlowMode"} ELSE {})

StickSpec == Init /\ [][NextStick]_vars

\* Polls with the sticks at rest and action buttons going down and up.
NextButtons == \E bs \in Presses : ReadJoystick(ZeroState.AxisData, bs)

ButtonSpec == Init /\ [][NextButtons]_vars

TypeOK ==
    /\ videoRecording \in BOOLEAN
    /\ videoConverter \in Procs \cup {Nil}
    /\ videoWriter \in Procs \cup {Nil}
    /\ uiPc \in {"idle", "rec_start", "stop_lock", "stop_flush"} \cup StopPcs
    /\ nCmds \in 0..MaxProcs
    /\ nPulled = Len(pulled)
    /\ pending \subseteq 1..nPulled
    /\ helperPc \in {"none", "wait", "err"}
    /\ readerPc \in {"idle", "write"}
    /\ decPc \in {"off", "setup", "loop", "publish", "publishing", "notify",
                 "eof", "done", "fatal"}
    /\ setupErr \in SetupSteps \cup {""}
    /\ Len(unitSt) <= nPulled
    /\ feedMu \in {"free", "decoder", "ui"}
    /\ tickPc \in {"idle", "lock", "locked", "select"}
    /\ Len(liveTrack.positions) <= MaxLongTrack
    /\ trackMu \in {"free", "w", "r"}
    /\ called.op \in {"none", "add", "simplify", "read", "export"}
    /\ addPc.pc \in {"idle", "lock", "append", "bounds"}
    /\ trackPc.pc \in {"idle", "simplify", "export"}

(***************************************************************************)
(* Claims                                                                   *)
(***************************************************************************)

Written(p) == Range(input[p])

\* C1: the packets written to a converter's stdin appear there in the order in
\* which customReader pulled them (packet numbers are the pull order): packets
\* may be missing, but none is out of order or written twice.
C1_WrittenInPullOrder ==
    \A p \in Procs : \A i, j \in 1..Len(input[p]) :
        i < j => input[p][i] < input[p][j]

\* C2: every packet pulled while the flag was set has been written to the
\* converter's stdin by the time the stop request has closed the pipe, and no
\* Write is attempted on a closed pipe.
C2_WrittenBeforeClose ==
    /\ ~lateWrite
    /\ \A k \in 1..nPulled :
        (pulled[k].rec /\ pulled[k].w # Nil
           /\ ~pipeOpen[pulled[k].w]
           /\ procSt[pulled[k].w] \in {"running", "exited"})
        => k \in Written(pulled[k].w)

\* The capacity of the claim's recording buffer, scaled to the run: one packet
\* fewer than the run delivers.
RecordingCapacity == MaxPkts - 1

\* C3: the number of packets accepted for recording and not yet written never
\* exceeds the capacity.
C3_PendingBounded == Cardinality(pending) <= RecordingCapacity

\* C4: a start request that arrives while a session is active creates no
\* command and leaves the process handle and the pipe of the session alone.
C4_StartWhileActiveIgnored ==
    [][(videoRecording /\ uiPc = "idle")
         => (nCmds' = nCmds /\ videoConverter' = videoConverter
               /\ videoWriter' = videoWriter)]_vars

\* C4, second half: at most one converter that was started is still running
\* without a stop request having reached it.
C4_AtMostOneUnstopped ==
    Cardinality({p \in Procs : procSt[p] = "running" /\ ~interrupted[p]}) <= 1

C6_IdleOnlyAfterExitOrKill ==
    \A p \in Procs :
        stopped[p]
        => /\ waitSeen[p] \/ killIssued[p]
           /\ exitKind[p] \in {"none", "killed"}
              => (timedOut[p] /\ killIssued[p])

\* C6 happens: the menu was switched back for a converter that never exited on
\* its own, after the timer fired and the Kill was issued.
C6_Witness ==
    \E p \in Procs :
        /\ stopped[p] /\ uiPc = "idle" /\ recVidSensitive /\ ~stopRecVidSensitive
        /\ exitKind[p] = "none" /\ timedOut[p] /\ killIssued[p]

Idle == uiPc = "idle" /\ recVidSensitive /\ ~stopRecVidSensitive

\* C7: every stop request ends with the menu switched back to start enabled,
\* stop disabled, whatever the converter does.
C7_StopCompletes == (uiPc \in StopPcs) ~> Idle

\* C7 happens: a stop request ended although the converter ignored the
\* interrupt and left Writes to its stdin blocked.
C7_Witness ==
    \E p \in Procs :
        /\ Idle /\ stopped[p] /\ interrupted[p] /\ killIssued[p]
        /\ procSt[p] = "running"
        /\ \E k \in pending : pulled[k].w = p

StopOrder == <<"flag", "close", "signal", "wait", "kill">>

\* C8: a stop request clears the flag, closes the pipe, sends the interrupt and
\* starts the bounded wait, in this order; a Kill comes only after the interrupt
\* was sent and the timer has fired.
C8_StopStepsInOrder ==
    /\ Len(stopLog) <= Len(StopOrder)
    /\ \A i \in 1..Len(stopLog) : stopLog[i] = StopOrder[i]
    /\ uiPc \in {"stop_signal", "stop_wait", "stop_select", "stop_menu"}
       => (~videoRecording /\ ~pipeOpen[videoWriter])
    /\ uiPc \in {"stop_wait", "stop_select", "stop_menu"}
       => interrupted[videoConverter]
    /\ \A p \in Procs : killIssued[p] => (interrupted[p] /\ timedOut[p])

\* C8 happens: a stop request went through all its steps, the Kill included.
C8_Witness == stopLog = StopOrder /\ uiPc = "idle"

\* C9: a stop request that arrives while no session is active does not fail,
\* closes no pipe and signals no process.
C9_IdleStopIsNoOp ==
    idleStop
    => /\ ~crashed
       /\ "close" \notin Range(stopLog)
       /\ "signal" \notin Range(stopLog)

\* C10: after a start request that failed, the controller is idle as before:
\* the flag is clear, the start item enabled and the stop item disabled, the
\* command of the request is not running, the failure has been reported and the
\* program goes on; a packet that arrives afterwards is written nowhere.
C10_FailedStartStaysIdle ==
    /\ dialog # ""
       => /\ uiPc = "idle" /\ ~crashed
          /\ ~videoRecording
          /\ recVidSensitive /\ ~stopRecVidSensitive
          /\ procSt[videoConverter] \in {"created", "failed"}
          /\ ~pipeOpen[videoConverter]
    /\ \A k \in 1..nPulled :
        pulled[k].afterFail
        => /\ ~pulled[k].rec
           /\ k \notin pending
           /\ \A p \in Procs : k \notin Written(p)

\* C10 happens: the converter could not be started, and a packet arrived
\* afterwards.
C10_Witness ==
    /\ dialog = "Could not start video converter."
    /\ nPulled > 0 /\ pulled[nPulled].afterFail

\* C11: whenever no request is being processed, exactly one of the two menu
\* items is enabled: the stop item iff the recording flag is set, the start
\* item iff it is clear.
C11_ControlsFollowFlag ==
    uiPc = "idle"
    => /\ stopRecVidSensitive <=> videoRecording
       /\ recVidSensitive <=> ~videoRecording

\* C11 happens: a session was stopped and the next start request succeeded, so
\* the controller is recording again with the stop item enabled.
C11_Witness ==
    /\ uiPc = "idle" /\ videoRecording /\ stopRecVidSensitive
    /\ ~recVidSensitive
    /\ \E p \in Procs : stopped[p] /\ p # videoConverter

\* C12: a packet customReader pulled while the flag was clear is written to no
\* converter, and no Write of it is started.
C12_IdlePacketsNotWritten ==
    \A k \in 1..nPulled :
        ~pulled[k].rec
        => /\ k \notin pending
           /\ \A p \in Procs : k \notin Written(p)

\* C12 happens: of two packets of one session, the first was pulled with the
\* flag set and written, the second after the stop request cleared the flag.
C12_Witness ==
    \E j, k \in 1..nPulled :
        /\ j < k /\ pulled[j].rec /\ ~pulled[k].rec
        /\ pulled[j].w = pulled[k].w
        /\ j \in Written(pulled[j].w)

\* C13: the packets customReader has returned to the decoding library are the
\* packets received from videoChan, each one once, unchanged and in the order
\* of arrival (packet k is the k-th received), whatever the recorder does.
C13_DecodePathUnchanged ==
    /\ Len(returned) = nPulled
    /\ \A k \in 1..nPulled : returned[k] = k

\* C13 happens: packets went to the decoder before, during and after a
\* recording session: one with the flag set, one with it clear.
C13_Witness ==
    /\ Len(returned) = MaxPkts
    /\ \E j, k \in 1..nPulled : pulled[j].rec /\ ~pulled[k].rec

\* C14: the decoder task is never inside a write to the converter that cannot
\* proceed until the converter reads: customReader hands every packet back to
\* the decoder whether or not the converter consumes its input.
C14_NoBlockingWriteOnDecoderTask ==
    ~(readerPc = "write" /\ wbuf # <<>> /\ PipeWriteBlocks(videoWriter))

\* updateFeed leaves its locked section.
ShowStep == tickPc = "locked" /\ tickPc' = "select"

\* C15: updateFeed puts a frame on the image only when the dirty flag is set,
\* it is the frame in wgt.feedImage, and the flag is cleared with it; a tick
\* that finds the flag clear displays nothing; so no frame is displayed twice.
C15_DirtyFlagGatesDisplay ==
    /\ [](\A i, j \in 1..Len(shown) : i # j => shown[i] # shown[j])
    /\ [][/\ shown' # shown => ShowStep /\ newFeedImage
          /\ (ShowStep /\ newFeedImage)
             => /\ shown' = Append(shown, feedImage)
                /\ image' = feedImage
                /\ ~newFeedImage'
          /\ (ShowStep /\ ~newFeedImage)
             => /\ shown' = shown
                /\ image' = image
                /\ ~newFeedImage']_vars

\* C15 happens: a frame was published and displayed, and the next tick holds
\* the mutex with the dirty flag clear.
C15_Witness ==
    /\ tickPc = "locked" /\ ~newFeedImage
    /\ shown # <<>> /\ image = shown[Len(shown)]

\* C16: the frame cell holds the latest published frame only: the displayed
\* frames are published frames in publishing order, none twice and none after
\* a newer one, and once the dirty flag is clear the last frame displayed is
\* the last one published.
C16_LatestFrameWins ==
    /\ \A i, j \in 1..Len(shown) : i < j => shown[i] < shown[j]
    /\ Range(shown) \subseteq Range(published)
    /\ published # <<>> => feedImage = published[Len(published)]
    /\ (~newFeedImage /\ published # <<>>)
       => (shown # <<>> /\ shown[Len(shown)] = published[Len(published)])

\* C16 happens: two frames were published between two ticks, and the tick
\* displayed the second one only.
C16_Witness ==
    /\ Len(published) = 2 /\ shown = <<published[2]>>
    /\ tickPc = "idle"

\* C17: every call of updateFeed returns (unless the program ends), whatever
\* the decoder goroutine is doing.
C17_UpdateFeedReturns == (tickPc # "idle") ~> (tickPc = "idle" \/ Exited)

\* C17, the reason: the decoder holds the mutex only between its Lock and its
\* Unlock around the two assignments.
C17_MutexOnlyAroundAssignment == (feedMu = "decoder") <=> (decPc = "publishing")

\* C17 happens: updateFeed holds the mutex while the decoder is blocked in
\* customReader's send of the end-of-stream signal.
C17_Witness == tickPc = "locked" /\ decPc = "notify"

\* The feed has been shut down: the loop of videoListener has ended, the
\* placeholder is back on the image and the timeout is removed.
FeedStopped == decPc = "done" /\ image = BlueSky /\ ~timerOn

\* C18: once videoChan is closed, customReader returns the zero-length result
\* that ends the decode loop, and updateFeed receives the stop signal,
\* restores the placeholder and removes its timer (unless the program ends
\* first).
C18_CloseStopsFeed == chanClosed ~> (FeedStopped \/ Exited)

\* C18 happens: the feed was shut down after a frame had been displayed.
C18_Witness == chanClosed /\ FeedStopped /\ shown # <<>>

\* C19: the step in which the decoding of a unit fails leaves the frame cell
\* and its dirty flag as they were and leaves the decoder in its loop, ready
\* for the next unit.
C19_DecodeErrorContinues ==
    [][(Len(unitSt') = Len(unitSt) + 1 /\ unitSt'[Len(unitSt')] = "bad")
         => /\ feedImage' = feedImage
            /\ newFeedImage' = newFeedImage
            /\ published' = published
            /\ decPc' = "loop"]_vars

\* C19 happens: the decoding of a unit failed, and the next unit was decoded
\* and published.
C19_Witness ==
    \E i \in 1..Len(unitSt) :
        /\ unitSt[i] = "bad"
        /\ i + 1 \in Range(published)

\* C20: after a failed setup step the program has ended in log.Fatalf: the
\* loop was never entered, no unit was handled and no frame was published.
C20_SetupFailureAborts ==
    setupErr # ""
    => /\ decPc = "fatal"
       /\ unitSt = <<>> /\ nPulled = 0
       /\ published = <<>> /\ feedImage = Nil /\ ~newFeedImage
       /\ shown = <<>>

\* C20 happens: the input could not be opened while the display timer was
\* already running.
C20_Witness == setupErr = "OpenInput" /\ timerOn /\ tickPc # "idle"

\* C21: a stop request that waits for the converter does not hold up the
\* display: whenever the timeout is installed and no call of updateFeed is
\* running, the next call can start, also while stopRecordingVideoCB sits in
\* its select.
C21_TicksRunDuringStop ==
    (timerOn /\ tickPc = "idle" /\ ~Exited /\ ~crashed /\ uiPc = "stop_select")
    => ENABLED UpdateFeedTick

\* A stop request has been through its Flush (buffered variant).
PastFlush == uiPc \in {"stop_signal", "stop_wait", "stop_select", "stop_menu"}

\* C25: what reaches the stdin of a converter are packets pulled while its own
\* session was active: the Write of a packet goes to the pipe of the command
\* that was started, and not yet stopped, when customReader pulled the packet.
C25_NoCrossSessionWrites ==
    /\ [](\A p \in Procs : \A k \in Written(p) :
            pulled[k].rec /\ pulled[k].w = p)
    /\ [][(nPulled' = nPulled + 1 /\ videoRecording)
            => /\ pulled'[nPulled'].w = videoConverter
               /\ procSt[videoConverter] \in {"running", "exited"}
               /\ ~stopped[videoConverter]
               /\ uiPc = "idle"]_vars

\* C25 happens: two sessions, each with a packet on its converter's stdin.
C25_Witness ==
    \E p, q \in Procs : p # q /\ input[p] # <<>> /\ input[q] # <<>>

\* C26: no goroutine started by a stop request stays behind in its send on
\* videoConverterDone with nobody left to receive: after the timeout case the
\* goroutine ends too.
C26_HelperNotLeftBlocked ==
    \A p \in Procs : ~(orphan[p] /\ procSt[p] = "exited")

\* C27: customReader is never in its send on stopFeedImageChan with no
\* updateFeed left to receive from it.
C27_EndOfStreamSendReturns ==
    ~(decPc = "notify" /\ ~timerOn /\ tickPc = "idle")

\* C28: in the buffered variant no Write runs while or after a stop request
\* flushes (a Write runs only with the flag set and no stop request past its
\* Lock), the Flush leaves the bufio buffer empty until the next session, and
\* every packet written in the session has then been handed to the pipe
\* (unless the converter is gone and the write to the pipe failed).
C28_FlushCoversSession ==
    /\ readerPc = "write"
       => (videoRecording /\ uiPc \notin {"stop_flush"} /\ ~PastFlush)
    /\ (~videoRecording /\ uiPc \notin {"stop_lock", "stop_flush"})
       => wbuf = <<>>
    /\ PastFlush
       => \A k \in 1..nPulled :
            (pulled[k].rec /\ pulled[k].w = videoWriter)
            => \/ k \in Range(inPipe[videoWriter]) \cup Written(videoWriter)
               \/ procSt[videoWriter] = "exited"

\* C28 happens: the only packet of a session sat in the bufio buffer, and the
\* Flush of the stop request has handed it to the pipe.
C28_Witness ==
    /\ uiPc = "stop_signal" /\ nPulled = 1 /\ pulled[1].rec
    /\ videoWriter # Nil /\ inPipe[videoWriter] = <<1>>

\* The positions before and after the last completed call on the track.
PrePositions == called.pre.positions
Positions == liveTrack.positions

\* C22: on a non-empty track, addPositionIfChanged appends the report when its
\* mvoX, mvoY or yaw differs from the last stored position; when height, mvoX,
\* mvoY and yaw all equal it, nothing is appended and no bound changes; and so
\* no two consecutive stored positions are equal in all four fields.
C22_AppendsIffChanged ==
    /\ (called.op = "add" /\ Len(PrePositions) > 0)
       => LET lastPos == PrePositions[Len(PrePositions)]
              newPos == called.arg
          IN  /\ (\/ newPos.mvoX # lastPos.mvoX
                  \/ newPos.mvoY # lastPos.mvoY
                  \/ newPos.imuYaw # lastPos.imuYaw)
                 => Positions = Append(PrePositions, newPos)
              /\ newPos = lastPos => liveTrack = called.pre
    /\ \A i \in 1..(Len(Positions) - 1) : Positions[i] # Positions[i + 1]

\* C22 happens: a report that differs from the last position in its yaw only
\* was appended, and the next report, equal to it, was not.
C22_Witness ==
    /\ called.op = "add"
    /\ Len(PrePositions) >= 2
    /\ called.arg = PrePositions[Len(PrePositions)]
    /\ LET a == PrePositions[Len(PrePositions) - 1]
           b == PrePositions[Len(PrePositions)]
       IN  a.imuYaw # b.imuYaw /\ a.mvoX = b.mvoX /\ a.mvoY = b.mvoY
              /\ a.heightDm = b.heightDm
    /\ liveTrack = called.pre

\* Two positions differ by at least m centimetres on the x, y or height axis.
AtLeastApart(a, b, m) ==
    \/ Abs(a.mvoX - b.mvoX) >= m
    \/ Abs(a.mvoY - b.mvoY) >= m
    \/ Abs(a.heightDm - b.heightDm) * 10 >= m

\* Two positions lie within m centimetres of each other on all three axes.
WithinOnAllAxes(a, b, m) ==
    /\ Abs(a.mvoX - b.mvoX) <= m
    /\ Abs(a.mvoY - b.mvoY) <= m
    /\ Abs(a.heightDm - b.heightDm) * 10 <= m

\* The ways of picking Len(post) positions out of pre, in order.
Pickings(pre, post) ==
    {f \in [1..Len(post) -> 1..Len(pre)] :
        /\ \A i \in 1..Len(post) : post[i] = pre[f[i]]
        /\ \A i \in 1..(Len(post) - 1) : f[i] < f[i + 1]}

\* The last picked index before index j.
LastPickedBefore(f, j) ==
    CHOOSE k \in Range(f) : k < j /\ \A l \in Range(f) : l < j => l <= k

\* C23: after simplify(minDist) with a valid minDist on a track of at least 3
\* positions, the first position is kept, the kept positions are the original
\* ones in their order with some left out, every kept position is at least
\* minDist from the kept one before it on some axis, and every position left
\* out was within minDist of the last kept one before it on all three axes.
C23_SimplifyKeepsFarDropsNear ==
    (called.op = "simplify" /\ called.arg >= 10 /\ called.arg <= 200
        /\ Len(PrePositions) >= 3)
    => /\ Len(Positions) >= 1
       /\ \E f \in Pickings(PrePositions, Positions) :
            /\ f[1] = 1
            /\ \A i \in 2..Len(Positions) :
                 AtLeastApart(Positions[i - 1], Positions[i], called.arg)
            /\ \A j \in (1..Len(PrePositions)) \ Range(f) :
                 WithinOnAllAxes(PrePositions[LastPickedBefore(f, j)],
                                 PrePositions[j], called.arg)

\* C23 happens: a simplify call dropped the second of three positions and
\* kept the third.
C23_Witness ==
    /\ called.op = "simplify" /\ called.arg = 10
    /\ Len(PrePositions) = 3
    /\ Positions = <<PrePositions[1], PrePositions[3]>>
    /\ PrePositions[2] # PrePositions[1]
    /\ PrePositions[2] # PrePositions[3]

\* C24: deriveScale is a whole number of metres, at least 1, and at least
\* |mvoX| and |mvoY| of every stored position.
C24_ScaleCoversTrack ==
    LET scale == deriveScale(liveTrack)
    IN  /\ scale % 100 = 0
        /\ scale >= 100
        /\ \A i \in 1..Len(Positions) :
             /\ scale >= Abs(Positions[i].mvoX)
             /\ scale >= Abs(Positions[i].mvoY)

\* C24 happens: an imported file of several rows reaches 1.5 m to the negative
\* side of x and 5 cm to the positive side of y, and the scale is 2 m.
C24_Witness ==
    /\ called.op = "read"
    /\ Len(Positions) >= 2
    /\ \E i \in 1..Len(Positions) : Positions[i].mvoX = -150
    /\ \E i \in 1..Len(Positions) : Positions[i].mvoY = 5
    /\ liveTrack.minX = -150
    /\ deriveScale(liveTrack) = 200

\* C30: simplify with minDist below 0.1 m or above 2.0 m, or on a track of
\* fewer than 3 positions, leaves the positions as they were.
C30_SimplifyIgnoredKeepsTrack ==
    (called.op = "simplify"
        /\ (called.arg < 10 \/ called.arg > 200 \/ Len(PrePositions) < 3))
    => Positions = PrePositions

\* C30 happens: simplify was called with an out-of-range minDist on a track
\* that the nearest valid minDist would have shortened.
C30_Witness ==
    /\ called.op = "simplify" /\ called.arg = 205
    /\ Len(PrePositions) = 3
    /\ Simplified(PrePositions, 200) # PrePositions
    /\ Positions = PrePositions

\* C29: the positions of a track change only in a step taken with the write
\* lock trackMu held, and never while a reader holds the read lock.
C29_MutationsUnderWriteLock ==
    [][/\ liveTrack'.positions # liveTrack.positions => trackMu = "w"
       /\ trackMu = "r" => liveTrack'.positions = liveTrack.positions]_vars

\* C31: simplify is idempotent: applying simplify(minDist) to the positions a
\* simplify(minDist) call has left gives the same positions again.
C31_SimplifyIdempotent ==
    called.op = "simplify"
    => /\ Simplified(Positions, called.arg) = Positions
       /\ called.pre.positions = Simplified(called.pre.positions, called.arg)
          => Positions = called.pre.positions

\* C31 happens: a valid simplify call shortened a track of four positions to
\* three, so that a second call runs its loop again.
C31_Witness ==
    /\ called.op = "simplify" /\ called.arg = 10
    /\ Len(PrePositions) = 4
    /\ Len(Positions) = 3

\* C32: in src/tracker.go every stored position lies inside the bounds,
\* minX <= mvoX <= maxX and minY <= mvoY <= maxY, so that deriveScale is at
\* least |mvoX| and |mvoY| of every stored position.
C32_G3nBoundsCoverTrack ==
    \A i \in 1..Len(Positions) :
        /\ liveTrack.minX <= Positions[i].mvoX
        /\ Positions[i].mvoX <= liveTrack.maxX
        /\ liveTrack.minY <= Positions[i].mvoY
        /\ Positions[i].mvoY <= liveTrack.maxY
        /\ G3nDeriveScale(liveTrack) >= Abs(Positions[i].mvoX)
        /\ G3nDeriveScale(liveTrack) >= Abs(Positions[i].mvoY)

\* What the claim gives for raw reading r: sgn is 1 for an X axis, -1 for a
\* Y axis.
ClaimedStick(r, sgn) ==
    IF Abs(r) < 2000 THEN 0
    ELSE IF Abs(r) > 16000 THEN (IF r > 0 THEN sgn ELSE -sgn) * 32767
    ELSE sgn * r

\* C33: with slow mode off the stick value is 0 for |r| < 2000, +/-32767 for
\* |r| > 16000 and r otherwise, with the sign of r on the X axes and the
\* opposite sign on the Y axes; it lies in [-32767, 32767], and a full
\* deflection never gives 0.
C33_StickMapping ==
    (pollLog # <<>> /\ "btnSlowMode" \notin jsState.Buttons)
    => /\ sm.Rx = ClaimedStick(jsState.AxisData["axLeftX"], 1)
       /\ sm.Ry = ClaimedStick(jsState.AxisData["axLeftY"], -1)
       /\ sm.Lx = ClaimedStick(jsState.AxisData["axRightX"], 1)
       /\ sm.Ly = ClaimedStick(jsState.AxisData["axRightY"], -1)
       /\ \A v \in {sm.Rx, sm.Ry, sm.Lx, sm.Ly} : v >= -32767 /\ v <= 32767
       /\ (Abs(jsState.AxisData["axLeftX"]) >= 32767) => sm.Rx # 0
       /\ (Abs(jsState.AxisData["axLeftY"]) >= 32767) => sm.Ry # 0
       /\ (Abs(jsState.AxisData["axRightX"]) >= 32767) => sm.Lx # 0
       /\ (Abs(jsState.AxisData["axRightY"]) >= 32767) => sm.Ly # 0

\* C34: in every poll an action button triggers its action iff it is down
\* in that poll and was up in the poll before; so a button held over several
\* polls triggers once, and one released and pressed again triggers again.
C34_TriggersOnPressOnly ==
    /\ \A i \in 1..Len(pollLog) : \A b \in ActionButtons :
          b \in pollLog[i].calls
          <=> (b \in pollLog[i].Buttons
                 /\ (i = 1 \/ b \notin pollLog[i - 1].Buttons))
    /\ \A i, j \in 1..Len(pollLog) : \A b \in ActionButtons :
          (/\ i <= j
           /\ \A k \in i..j : b \in pollLog[k].Buttons
           /\ (i = 1 \/ b \notin pollLog[i - 1].Buttons))
          => Cardinality({k \in i..j : b \in pollLog[k].calls}) = 1

\* C34 happens: over three polls one button was held and triggered once,
\* another was pressed, released and pressed again and triggered twice.
C34_Witness ==
    /\ Len(pollLog) = 3
    /\ \A i \in 1..3 : "btnLand" \in pollLog[i].Buttons
    /\ {i \in 1..3 : "btnLand" \in pollLog[i].calls} = {1}
    /\ {i \in 1..3 : "btnTakePhoto" \in pollLog[i].Buttons} = {1, 3}
    /\ {i \in 1..3 : "btnTakePhoto" \in pollLog[i].calls} = {1, 3}

\* The first row of a file that cannot be read or parsed (0 if there is none).
FirstBadRow(file) ==
    IF \A i \in 1..Len(file) : file[i].kind = "ok" THEN 0
    ELSE CHOOSE k \in 1..Len(file) :
            file[k].kind # "ok" /\ \A i \in 1..(k - 1) : file[i].kind = "ok"

\* C35: when readTrack meets a row that cannot be read or parsed it returns
\* a track holding exactly the positions of the rows before it, and
\* importTrackCB installs that track as the live track.
C35_PartialTrackInstalled ==
    (called.op = "read" /\ FirstBadRow(called.arg) # 0)
    => /\ ~crashed
       /\ Positions = [i \in 1..(FirstBadRow(called.arg) - 1) |-> called.arg[i].pos]

====
